---- MODULE Spec2Model ----
(***************************************************************************)
(* Model of the verse tree transformer of internal/esv/transform.go:       *)
(* processPassageHTML (the top-level driver) and processNode (the          *)
(* recursive rewrite), over the node model of golang.org/x/net/html.       *)
(*                                                                         *)
(* A node is a record                                                      *)
(*   Type   "element" or "text"                                            *)
(*   Tag    the DataAtom of an element ("" for a text node)                *)
(*   Attr   the attribute list, a sequence of [Key, Val]; Val is the       *)
(*          sequence of class tokens (strings.Fields of the value) for     *)
(*          "class" and the sequence of characters for every other key     *)
(*   Data   the characters of a text node (<<>> for an element)            *)
(*   Kids   the child list                                                 *)
(*   Parent TRUE iff the node's Parent pointer is not nil                  *)
(*   Origin ghost field: "parsed" for a node of the parsed fragment,       *)
(*          "wrapper" / "section" for a node the transformer creates       *)
(* A string of the program is the sequence of its characters; the empty    *)
(* string is <<>>.                                                         *)
(***************************************************************************)
EXTENDS Naturals, Sequences, FiniteSets

Range(s) == {s[i] : i \in 1..Len(s)}

\* ------------------------------------------------------------ characters
NBSP == "NBSP"
FF == "\f"

\* const cutset: space, tab, newline, carriage return, U+00A0
cutset == {" ", "\t", "\n", "\r", NBSP}

\* unicode.IsSpace on the Latin-1 range, as used by strings.TrimSpace
IsSpace(ch) == ch \in {" ", "\t", "\n", "\r", "\f", "VT", "NEL", NBSP}

Digits == {"0", "1", "2", "3", "4", "5", "6", "7", "8", "9"}

\* number of digits the verse id pattern captures: ^v(\d{8}).*
RefDigits == 8

RECURSIVE TrimLeft(_)
TrimLeft(s) ==
  IF s # <<>> /\ s[1] \in cutset THEN TrimLeft(Tail(s)) ELSE s

RECURSIVE TrimRight(_)
TrimRight(s) ==
  IF s # <<>> /\ s[Len(s)] \in cutset THEN TrimRight(SubSeq(s, 1, Len(s) - 1)) ELSE s

Trim(s) == TrimRight(TrimLeft(s))

\* strings.TrimSpace(s) == ""
TrimSpaceIsEmpty(s) == \A i \in 1..Len(s) : IsSpace(s[i])

\* ------------------------------------------------------- node primitives
NewElement(tag, attr, kids, origin) ==
  [Type |-> "element", Tag |-> tag, Attr |-> attr, Data |-> <<>>,
   Kids |-> kids, Parent |-> FALSE, Origin |-> origin]

NewText(data) ==
  [Type |-> "text", Tag |-> "", Attr |-> <<>>, Data |-> data,
   Kids |-> <<>>, Parent |-> FALSE, Origin |-> "parsed"]

\* (*html.Node).RemoveChild clears the child's Parent and sibling pointers
Detach(c) == [c EXCEPT !.Parent = FALSE]

\* (*html.Node).AppendChild: "It will panic if c already has a parent or
\* siblings."  AppendPanics is that condition, AppendChild the normal effect.
AppendPanics(c) == c.Parent

AppendChild(n, c) == [n EXCEPT !.Kids = Append(@, [c EXCEPT !.Parent = TRUE])]

\* --------------------------------------------------- attribute utilities
hasClass(n, class) ==
  \E i \in 1..Len(n.Attr) : n.Attr[i].Key = "class" /\ class \in Range(n.Attr[i].Val)

HasKey(n, key) == \E i \in 1..Len(n.Attr) : n.Attr[i].Key = key

FirstKey(n, key) ==
  CHOOSE i \in 1..Len(n.Attr) :
    n.Attr[i].Key = key /\ \A j \in 1..(i - 1) : n.Attr[j].Key # key

RemoveAt(s, i) == SubSeq(s, 1, i - 1) \o SubSeq(s, i + 1, Len(s))

addClass(n, newClass) ==
  IF HasKey(n, "class")
  THEN IF hasClass(n, newClass) THEN n
       ELSE [n EXCEPT !.Attr[FirstKey(n, "class")].Val = Append(@, newClass)]
  ELSE [n EXCEPT !.Attr = Append(@, [Key |-> "class", Val |-> <<newClass>>])]

RECURSIVE DropToken(_, _)
DropToken(fields, target) ==
  IF fields = <<>> THEN <<>>
  ELSE IF fields[1] = target THEN DropToken(Tail(fields), target)
       ELSE <<fields[1]>> \o DropToken(Tail(fields), target)

removeClass(n, target) ==
  IF ~HasKey(n, "class") THEN n
  ELSE LET i == FirstKey(n, "class")
           fields == n.Attr[i].Val
           newFields == DropToken(fields, target)
       IN IF target \notin Range(fields) THEN n
          ELSE IF newFields = <<>> THEN [n EXCEPT !.Attr = RemoveAt(@, i)]
               ELSE [n EXCEPT !.Attr[i].Val = newFields]

setAttr(n, key, val) ==
  IF HasKey(n, key) THEN [n EXCEPT !.Attr[FirstKey(n, key)].Val = val]
  ELSE [n EXCEPT !.Attr = Append(@, [Key |-> key, Val |-> val])]

removeAttr(n, key) ==
  IF HasKey(n, key) THEN [n EXCEPT !.Attr = RemoveAt(@, FirstKey(n, key))] ELSE n

Headings == {"h1", "h2", "h3", "h4", "h5", "h6"}

\* cleanupAttributes without the span.line case: a poetic line keeps its id
cleanupAttributes_KeepLineId(n) ==
  IF n.Tag = "p" THEN removeClass(removeAttr(n, "id"), "virtual")
  ELSE IF n.Tag = "b" THEN removeAttr(n, "id")
  ELSE IF n.Tag \in Headings THEN removeAttr(n, "id")
  ELSE n

cleanupAttributes(n) ==
  IF n.Tag = "p" THEN removeClass(removeAttr(n, "id"), "virtual")
  ELSE IF n.Tag = "span" THEN (IF hasClass(n, "line") THEN removeAttr(n, "id") ELSE n)
  ELSE IF n.Tag = "b" THEN removeAttr(n, "id")
  ELSE IF n.Tag \in Headings THEN removeAttr(n, "id")
  ELSE n

\* ------------------------------------------------------------ predicates
isBlock(n) == n.Tag \in ({"p", "div", "section"} \cup Headings)

isStylizedLine(n) == n.Tag = "span" /\ hasClass(n, "line")

isBeginLineGroup(n) == n.Tag = "span" /\ hasClass(n, "begin-line-group")

isEndLineGroup(n) == n.Tag = "span" /\ hasClass(n, "end-line-group")

isCopyrightLink(n) == n.Tag = "a" /\ hasClass(n, "copyright")

RECURSIVE hasSection(_)
hasSection(n) ==
  \E i \in 1..Len(n.Kids) :
    \/ n.Kids[i].Type = "element" /\ n.Kids[i].Tag = "section"
    \/ hasSection(n.Kids[i])

\* the regular expression ^v(\d{8}).* applied to an id value
\* MatchesVerseID with the pattern anchored at the end: ^v(\d{8})$
MatchesVerseID_NoSuffix(val) ==
  /\ Len(val) = RefDigits + 1
  /\ val[1] = "v"
  /\ \A k \in 2..(RefDigits + 1) : val[k] \in Digits

MatchesVerseID(val) ==
  /\ Len(val) >= RefDigits + 1
  /\ val[1] = "v"
  /\ \A k \in 2..(RefDigits + 1) : val[k] \in Digits

getVerseRef(n) ==
  IF n.Type # "element" THEN <<>>
  ELSE IF \E i \in 1..Len(n.Attr) : n.Attr[i].Key = "id" /\ MatchesVerseID(n.Attr[i].Val)
       THEN LET i == CHOOSE i \in 1..Len(n.Attr) :
                       /\ n.Attr[i].Key = "id" /\ MatchesVerseID(n.Attr[i].Val)
                       /\ \A j \in 1..(i - 1) :
                            ~(n.Attr[j].Key = "id" /\ MatchesVerseID(n.Attr[j].Val))
            IN SubSeq(n.Attr[i].Val, 2, RefDigits + 1)
       ELSE <<>>

createVerseWrapper(ref) ==
  NewElement("span",
             <<[Key |-> "class", Val |-> <<"verse">>], [Key |-> "data-ref", Val |-> ref]>>,
             <<>>, "wrapper")

\* --------------------------------------------------- whitespace trimming
RECURSIVE TrimKids(_)
TrimKids(kids) ==
  LET k1 == IF kids # <<>> /\ kids[1].Type = "text"
            THEN LET d == TrimLeft(kids[1].Data)
                 IN IF Len(d) = 0
                    THEN (IF Tail(kids) # <<>> THEN TrimKids(Tail(kids)) ELSE <<>>)
                    ELSE <<[kids[1] EXCEPT !.Data = d]>> \o Tail(kids)
            ELSE kids
      m == Len(k1)
  IN IF k1 # <<>> /\ k1[m].Type = "text"
     THEN LET d == TrimRight(k1[m].Data)
              front == SubSeq(k1, 1, m - 1)
          IN IF Len(d) = 0
             THEN (IF front # <<>> THEN TrimKids(front) ELSE <<>>)
             ELSE front \o <<[k1[m] EXCEPT !.Data = d]>>
     ELSE k1

trimChildrenWhitespace(n) == [n EXCEPT !.Kids = TrimKids(@)]

trimTrailingWhitespace(n) ==
  LET m == Len(n.Kids) IN
  IF m > 0 /\ n.Kids[m].Type = "text"
  THEN LET d == TrimRight(n.Kids[m].Data)
       IN IF Len(d) = 0 THEN [n EXCEPT !.Kids = SubSeq(@, 1, m - 1)]
          ELSE [n EXCEPT !.Kids[m].Data = d]
  ELSE n

cleanVerseMarker(n) ==
  IF n.Type = "element" /\ n.Tag = "b" /\ hasClass(n, "verse-num")
  THEN trimChildrenWhitespace(n) ELSE n

cleanTextNode(n) == n

\* ------------------------------------------------------------ processNode
\* The loop state of step 2 of processNode is a record
\*   [newChildren, currentWrapper, shouldTrimLeading, activeVerseRef, panic]
\* currentWrapper is <<>> for nil and <<w>> for an open wrapper w; panic is
\* TRUE once an AppendChild was called for an attached node.
RECURSIVE ProcessNode(_, _)

\* lines 95-102: the children are removed from n one by one
ExtractChildren(n) == [i \in 1..Len(n.Kids) |-> Detach(n.Kids[i])]

\* lines 104-111: early trim for verse markers
EarlyTrim(n, children) ==
  IF n.Tag = "b" /\ hasClass(n, "verse-num")
  THEN [i \in 1..Len(children) |->
          IF children[i].Type = "text"
          THEN [children[i] EXCEPT !.Data = Trim(@)] ELSE children[i]]
  ELSE children

\* CopyrightReset without the lookahead: the reference is kept
CopyrightReset_Never(children, activeVerseRef) == activeVerseRef

\* CopyrightReset that also forgets the reference when there is no link
CopyrightReset_Always(children, activeVerseRef) == <<>>

\* lines 113-116: a copyright link among the children clears the reference
CopyrightReset(children, activeVerseRef) ==
  IF \E i \in 1..Len(children) : isCopyrightLink(children[i]) THEN <<>> ELSE activeVerseRef

NewSection ==
  NewElement("section", <<[Key |-> "class", Val |-> <<"line-group">>]>>, <<>>, "section")

\* line grouping in which an end-line-group span is dropped without closing
\* the section
RECURSIVE GroupLines_EndKeepsOpen(_, _, _, _)
GroupLines_EndKeepsOpen(children, i, groupedChildren, inSection) ==
  IF i > Len(children) THEN groupedChildren
  ELSE LET c == children[i] IN
       IF isBeginLineGroup(c)
       THEN GroupLines_EndKeepsOpen(children, i + 1, Append(groupedChildren, NewSection), TRUE)
       ELSE IF isEndLineGroup(c)
       THEN GroupLines_EndKeepsOpen(children, i + 1, groupedChildren, inSection)
       ELSE IF inSection
       THEN GroupLines_EndKeepsOpen(children, i + 1,
              [groupedChildren EXCEPT ![Len(groupedChildren)] = AppendChild(@, c)], TRUE)
       ELSE GroupLines_EndKeepsOpen(children, i + 1, Append(groupedChildren, c), FALSE)

\* lines 118-146: line grouping.  While currentSection is not nil it is the
\* last element of groupedChildren, so the pointer is modelled by inSection.
RECURSIVE GroupLines(_, _, _, _)
GroupLines(children, i, groupedChildren, inSection) ==
  IF i > Len(children) THEN groupedChildren
  ELSE LET c == children[i] IN
       IF isBeginLineGroup(c)
       THEN GroupLines(children, i + 1, Append(groupedChildren, NewSection), TRUE)
       ELSE IF isEndLineGroup(c)
       THEN GroupLines(children, i + 1, groupedChildren, FALSE)
       ELSE IF inSection
       THEN GroupLines(children, i + 1,
              [groupedChildren EXCEPT ![Len(groupedChildren)] = AppendChild(@, c)], TRUE)
       ELSE GroupLines(children, i + 1, Append(groupedChildren, c), FALSE)

InitLoop(activeVerseRef) ==
  [newChildren |-> <<>>, currentWrapper |-> <<>>, shouldTrimLeading |-> FALSE,
   activeVerseRef |-> activeVerseRef, panic |-> FALSE]

\* closeWrapper without the trailing trim
closeWrapper_NoTrim(L) ==
  IF L.currentWrapper # <<>>
  THEN [L EXCEPT !.newChildren = IF L.currentWrapper[1].Kids # <<>>
                                 THEN Append(@, L.currentWrapper[1]) ELSE @,
                 !.currentWrapper = <<>>]
  ELSE L

\* lines 153-162
closeWrapper(L) ==
  IF L.currentWrapper # <<>>
  THEN LET w == trimTrailingWhitespace(L.currentWrapper[1])
       IN [L EXCEPT !.newChildren = IF w.Kids # <<>> THEN Append(@, w) ELSE @,
                    !.currentWrapper = <<>>]
  ELSE L

\* currentWrapper.AppendChild(c), creating the wrapper first when it is nil
AppendToWrapper(L, c) ==
  LET w == IF L.currentWrapper = <<>> THEN createVerseWrapper(L.activeVerseRef)
           ELSE L.currentWrapper[1]
  IN [L EXCEPT !.currentWrapper = <<AppendChild(w, c)>>,
               !.panic = @ \/ AppendPanics(c)]

\* lines 176-191: c is a verse marker with reference ref; L1 is the loop
\* state behind closeWrapper and the two assignments, m the cleaned marker
\* MarkerPlaced with the poetic-line branch taken everywhere: the marker
\* joins the parent's list and no wrapper is created
MarkerPlaced_Unwrapped(n, L1, m) == [L1 EXCEPT !.newChildren = Append(@, m)]

MarkerPlaced(n, L1, m) ==
  IF isStylizedLine(n)
  THEN [L1 EXCEPT !.newChildren = Append(@, m)]
  ELSE AppendToWrapper(L1, m)

\* OnMarker that enters the marker like any other element child
OnMarker_Recursing(n, L, c, ref) ==
  MarkerPlaced(n,
    [closeWrapper(L) EXCEPT !.activeVerseRef = ref, !.shouldTrimLeading = TRUE],
    ProcessNode(cleanVerseMarker(c), ref).n)

OnMarker(n, L, c, ref) ==
  MarkerPlaced(n,
    [closeWrapper(L) EXCEPT !.activeVerseRef = ref, !.shouldTrimLeading = TRUE],
    cleanVerseMarker(c))

\* lines 193-199
OnCopyright(n, L, c) ==
  [closeWrapper(L) EXCEPT !.activeVerseRef = <<>>, !.newChildren = Append(@, c)]

\* lines 205-226: r is what processNode(c, activeVerseRef) returned
BlockPlaced(L1, r) ==
  [L1 EXCEPT !.activeVerseRef = r.ref,
             !.panic = @ \/ r.panic,
             !.shouldTrimLeading = FALSE,
             !.newChildren =
                IF r.n.Tag = "p" /\ hasSection(r.n) THEN @ \o r.n.Kids
                ELSE IF r.n.Tag = "p" /\ r.n.Kids = <<>> THEN @
                ELSE Append(@, r.n)]

BlockEntered(L1, c) == BlockPlaced(L1, ProcessNode(c, L1.activeVerseRef))

\* lines 202-226
OnBlock(n, L, c) == BlockEntered(closeWrapper(L), c)

\* lines 228-234
OnBr(n, L, c) ==
  [closeWrapper(L) EXCEPT !.newChildren = Append(@, c), !.shouldTrimLeading = FALSE]

\* LinePlaced tagging with the reference on entry instead of the one returned
LinePlaced_TagOnEntry(L1, r) ==
  [L1 EXCEPT !.activeVerseRef = r.ref,
             !.panic = @ \/ r.panic,
             !.shouldTrimLeading = FALSE,
             !.newChildren =
                Append(@, IF L1.activeVerseRef # <<>>
                          THEN setAttr(addClass(r.n, "verse"), "data-ref", L1.activeVerseRef)
                          ELSE r.n)]

\* lines 240-246: r is what processNode(c, activeVerseRef) returned
LinePlaced(L1, r) ==
  [L1 EXCEPT !.activeVerseRef = r.ref,
             !.panic = @ \/ r.panic,
             !.shouldTrimLeading = FALSE,
             !.newChildren =
                Append(@, IF r.ref # <<>>
                          THEN setAttr(addClass(r.n, "verse"), "data-ref", r.ref)
                          ELSE r.n)]

LineEntered(L1, c) == LinePlaced(L1, ProcessNode(c, L1.activeVerseRef))

\* lines 236-247
OnLine(n, L, c) == LineEntered(closeWrapper(L), c)

\* lines 254-275: r is what processNode(c, activeVerseRef) returned; the
\* reference it carries is discarded
OpenWrapper(L) ==
  IF L.currentWrapper = <<>>
  THEN [L EXCEPT !.currentWrapper = <<createVerseWrapper(L.activeVerseRef)>>]
  ELSE L

\* InlinePlaced that never uses the wrapper: the element joins the parent's
\* list while a wrapper may still be open
InlinePlaced_Outside(n, L1, r) ==
  IF r.n.Tag = "p" /\ r.n.Kids = <<>>
  THEN [L1 EXCEPT !.panic = @ \/ r.panic]
  ELSE [L1 EXCEPT !.panic = @ \/ r.panic, !.newChildren = Append(@, r.n)]

InlinePlaced(n, L1, r) ==
  IF L1.activeVerseRef # <<>> /\ ~isStylizedLine(n)
  THEN IF r.n.Tag = "p" /\ r.n.Kids = <<>>
       THEN OpenWrapper([L1 EXCEPT !.panic = @ \/ r.panic])
       ELSE AppendToWrapper(OpenWrapper([L1 EXCEPT !.panic = @ \/ r.panic]), r.n)
  ELSE IF r.n.Tag = "p" /\ r.n.Kids = <<>>
       THEN [L1 EXCEPT !.panic = @ \/ r.panic]
       ELSE [L1 EXCEPT !.panic = @ \/ r.panic, !.newChildren = Append(@, r.n)]

InlineEntered(n, L1, c) == InlinePlaced(n, L1, ProcessNode(c, L1.activeVerseRef))

\* lines 249-275
OnInline(n, L, c) == InlineEntered(n, [L EXCEPT !.shouldTrimLeading = FALSE], c)

\* TextPlaced with the wrapper forgotten: the text always joins the
\* parent's list
TextPlaced_Unwrapped(n, L1, t) == [L1 EXCEPT !.newChildren = Append(@, t)]

\* lines 285-306: t is the text node behind the leading trim
TextPlaced(n, L1, t) ==
  IF TrimSpaceIsEmpty(t.Data) /\ n.Tag = "section" /\ hasClass(n, "line-group")
  THEN [L1 EXCEPT !.newChildren = Append(@, t)]
  ELSE IF L1.activeVerseRef # <<>>
       THEN IF isStylizedLine(n)
            THEN [L1 EXCEPT !.newChildren = Append(@, t)]
            ELSE AppendToWrapper(L1, t)
       ELSE [L1 EXCEPT !.newChildren = Append(@, t)]

\* lines 278-283: d is the text behind the conditional TrimLeft
\* TextTrimmed clearing the flag behind every text node, emptied or not
TextTrimmed_AlwaysClear(n, L, c, d) ==
  TextPlaced(n,
    [L EXCEPT !.shouldTrimLeading = FALSE],
    cleanTextNode([c EXCEPT !.Data = d]))

TextTrimmed(n, L, c, d) ==
  TextPlaced(n,
    [L EXCEPT !.shouldTrimLeading = IF @ /\ Len(d) > 0 THEN FALSE ELSE @],
    cleanTextNode([c EXCEPT !.Data = d]))

\* lines 277-307
OnText(n, L, c) ==
  TextTrimmed(n, L, c, IF L.shouldTrimLeading THEN TrimLeft(c.Data) ELSE c.Data)

\* which branch of the loop body (lines 164-308) the child takes: ref is
\* getVerseRef(c), cc the child behind cleanupAttributes
KindOf(cc, ref) ==
  IF ref # <<>> THEN "marker"
  ELSE IF isCopyrightLink(cc) THEN "copyright"
  ELSE IF cc.Type = "element"
       THEN IF isBlock(cc) THEN "block"
            ELSE IF cc.Tag = "br" THEN "br"
            ELSE IF isStylizedLine(cc) THEN "line"
            ELSE "inline"
  ELSE IF cc.Type = "text" THEN "text"
  ELSE "other"

\* lines 171-174
Cleaned(c) == IF c.Type = "element" THEN cleanupAttributes(c) ELSE c

ChildKind(c) == KindOf(Cleaned(c), getVerseRef(c))

Dispatch(n, L, cc, ref, kind) ==
  IF kind = "marker" THEN OnMarker(n, L, cc, ref)
  ELSE IF kind = "copyright" THEN OnCopyright(n, L, cc)
  ELSE IF kind = "block" THEN OnBlock(n, L, cc)
  ELSE IF kind = "br" THEN OnBr(n, L, cc)
  ELSE IF kind = "line" THEN OnLine(n, L, cc)
  ELSE IF kind = "inline" THEN OnInline(n, L, cc)
  ELSE IF kind = "text" THEN OnText(n, L, cc)
  ELSE L

\* one iteration of the loop of lines 164-308 on child c of n
StepChild(n, L, c) == Dispatch(n, L, Cleaned(c), getVerseRef(c), ChildKind(c))

RECURSIVE WalkChildren(_, _, _, _)
WalkChildren(n, L, children, i) ==
  IF i > Len(children) THEN L
  ELSE WalkChildren(n, StepChild(n, L, children[i]), children, i + 1)

\* lines 95-146 on the node n behind cleanupAttributes and its children
\* behind the early trim
Prepared(n, children, activeVerseRef) ==
  [n |-> [n EXCEPT !.Kids = <<>>],
   children |-> GroupLines(children, 1, <<>>, FALSE),
   activeVerseRef |-> CopyrightReset(children, activeVerseRef)]

Extracted(n, activeVerseRef) ==
  Prepared(n, EarlyTrim(n, ExtractChildren(n)), activeVerseRef)

\* lines 92-146: what processNode does to an element before the loop
Prepare(node, activeVerseRef) == Extracted(cleanupAttributes(node), activeVerseRef)

\* lines 316-321
PostProcess(n) == IF n.Tag \in {"p", "span"} THEN trimChildrenWhitespace(n) ELSE n

\* lines 311-323: L1 is the loop state behind the last closeWrapper
Reattach(n, L1) ==
  [n |-> PostProcess([n EXCEPT !.Kids = [k \in 1..Len(L1.newChildren) |->
                                            [L1.newChildren[k] EXCEPT !.Parent = TRUE]]]),
   ref |-> L1.activeVerseRef,
   panic |-> L1.panic \/ \E k \in 1..Len(L1.newChildren) : AppendPanics(L1.newChildren[k])]

\* lines 309-323: close the wrapper, re-attach the children, post-process
Finalize(n, L) == Reattach(n, closeWrapper(L))

Walked(p) == Finalize(p.n, WalkChildren(p.n, InitLoop(p.activeVerseRef), p.children, 1))

ProcessNode(node, activeVerseRef) ==
  IF node.Type # "element"
  THEN [n |-> node, ref |-> activeVerseRef, panic |-> FALSE]
  ELSE Walked(Prepare(node, activeVerseRef))

\* ------------------------------------------------------------ html.Render
\* The serialized string is modelled by the forest a reader of that string
\* sees: the characters of adjacent text nodes run together and a text node
\* without characters leaves no trace.
RECURSIVE MergeText(_)
MergeText(kids) ==
  IF kids = <<>> THEN <<>>
  ELSE LET rest == MergeText(Tail(kids)) IN
       IF kids[1].Type = "text"
       THEN IF kids[1].Data = <<>> THEN rest
            ELSE IF rest # <<>> /\ rest[1].Type = "text"
                 THEN <<[rest[1] EXCEPT !.Data = kids[1].Data \o @]>> \o Tail(rest)
                 ELSE <<kids[1]>> \o rest
       ELSE <<kids[1]>> \o rest

RECURSIVE Render(_)
Render(n) ==
  IF n.Type # "element" THEN n
  ELSE [n EXCEPT !.Kids = MergeText([i \in 1..Len(n.Kids) |-> Render(n.Kids[i])])]

RenderAll(ns) == MergeText([i \in 1..Len(ns) |-> Render(ns[i])])

\* ----------------------------------------------------------------- inputs
\* bounds of the enumerated fragments
MaxKids == 3
MaxTop == 3

Ref1 == <<"0", "1", "0", "0", "1", "0", "0", "1">>
Ref2 == <<"0", "1", "0", "0", "1", "0", "0", "2">>

Child(c) == [c EXCEPT !.Parent = TRUE]
Elem(tag, attr, kids) == NewElement(tag, attr, [i \in 1..Len(kids) |-> Child(kids[i])], "parsed")
Class(tokens) == [Key |-> "class", Val |-> tokens]
Id(val) == [Key |-> "id", Val |-> val]

\* <b class="verse-num" id="vRRRRRRRR-1">1&nbsp;</b>
VerseNum(ref) ==
  Elem("b", <<Class(<<"verse-num">>), Id(<<"v">> \o ref \o <<"-", "1">>)>>,
       <<NewText(<<"1", NBSP>>)>>)
\* <b class="chapter-num" id="vRRRRRRRR-1"> 1:1&nbsp;</b>
ChapterNum(ref) ==
  Elem("b", <<Class(<<"chapter-num">>), Id(<<"v">> \o ref \o <<"-", "1">>)>>,
       <<NewText(<<" ", "1", NBSP>>)>>)
\* a marker that is not a <b>: <sup class="verse-num" id="vRRRRRRRR-1">2&nbsp;</sup>
SupNum(ref) ==
  Elem("sup", <<Class(<<"verse-num">>), Id(<<"v">> \o ref \o <<"-", "1">>)>>,
       <<NewText(<<"2", NBSP>>)>>)
Copyright == Elem("a", <<Class(<<"copyright">>)>>, <<NewText(<<"E">>)>>)
Br == Elem("br", <<>>, <<>>)
Begin == Elem("span", <<Class(<<"begin-line-group">>)>>, <<>>)
End == Elem("span", <<Class(<<"end-line-group">>)>>, <<>>)
LineId == <<"p", "0", "1", "0", "0", "1", "0", "0", "1", "_", "0", "1">>
Line(kids) == Elem("span", <<Id(LineId), Class(<<"line">>)>>, kids)
IndentLine(kids) == Elem("span", <<Id(LineId), Class(<<"indent", "line">>)>>, kids)
Italic(kids) == Elem("i", <<>>, kids)
Span(kids) == Elem("span", <<Class(<<"divine-name">>)>>, kids)
P(kids) == Elem("p", <<Id(LineId), Class(<<"virtual">>)>>, kids)
PlainP(kids) == Elem("p", <<>>, kids)
Div(kids) == Elem("div", <<Class(<<"passage">>)>>, kids)
H3(kids) == Elem("h3", <<Id(LineId)>>, kids)

TA == NewText(<<"a">>)
TSpaced == NewText(<<NBSP, "a", " ">>)
TBlank == NewText(<<" ", NBSP>>)
TLead == NewText(<<" ", "a">>)
TFeed == NewText(<<FF, "a">>)

\* the children a generated paragraph is built from
ProseItems ==
  {TA, TSpaced, TBlank,
   VerseNum(Ref1), ChapterNum(Ref2), Copyright, Br,
   Italic(<<TLead>>), Italic(<<Copyright>>), Line(<<TLead>>),
   IndentLine(<<VerseNum(Ref2), TSpaced>>),
   Begin, End}

\* the parser never returns two adjacent text nodes
NoAdjacentText(kids) ==
  \A i \in 1..(Len(kids) - 1) : ~(kids[i].Type = "text" /\ kids[i + 1].Type = "text")

SeqsUpTo(S, k) == UNION {[1..m -> S] : m \in 0..k}

ProseKids == {kids \in SeqsUpTo(ProseItems, MaxKids) : NoAdjacentText(kids)}

\* the nodes a generated fragment (or a generated div) is built from
TopItems ==
  {PlainP(<<VerseNum(Ref1), TSpaced>>),
   P(<<TLead>>),
   PlainP(<<Begin, Line(<<ChapterNum(Ref2), TLead>>), Br, IndentLine(<<TLead>>), End>>),
   PlainP(<<TA, Copyright>>),
   PlainP(<<Line(<<TA, Span(<<TA>>)>>), Span(<<VerseNum(Ref2)>>), TLead>>),
   PlainP(<<>>),
   H3(<<TA>>),
   Begin, End, Line(<<TLead>>),
   VerseNum(Ref1), Copyright,
   TBlank}

TopSeqs == {ns \in SeqsUpTo(TopItems, MaxTop) : NoAdjacentText(ns)}

\* a paragraph that opens with a marker: behind it text nodes that the
\* dropped end-line-group spans leave next to each other
MarkerLedKids ==
  {kids \in SeqsUpTo({TBlank, TSpaced, TLead, TFeed, End, Br, SupNum(Ref2)}, MaxKids) : NoAdjacentText(kids)}

\* a marker with descendants of its own:
\* <b class="verse-num" id="vRRRRRRRR-1"> &nbsp;<span id=".." class="indent line"> a</span>
\* <sup class="verse-num" id="v..-1">2&nbsp;</sup><span class="begin-line-group"></span> &nbsp;</b>
DeepNum(ref) ==
  Elem("b", <<Class(<<"verse-num">>), Id(<<"v">> \o ref \o <<"-", "1">>)>>,
       <<TBlank, IndentLine(<<TLead>>), SupNum(Ref1), Begin, TBlank>>)

\* a div that opens with a marker: behind it text that ends in white space,
\* inline elements, a heading and a marker with descendants
DivLedKids ==
  {kids \in SeqsUpTo({TSpaced, Italic(<<TSpaced>>), H3(<<TA>>), DeepNum(Ref2)}, MaxKids) :
     NoAdjacentText(kids)}

\* <b class="verse-num"> &nbsp;<span class="end-line-group"></span> &nbsp;</b>:
\* a verse number without id
BareNum == Elem("b", <<Class(<<"verse-num">>)>>, <<TBlank, End, TBlank>>)

\* such a div, and behind it an inline element at the top level
DivLedInputs ==
  {<<Div(<<VerseNum(Ref1)>> \o kids), tail>> :
     kids \in DivLedKids, tail \in {Italic(<<TSpaced>>), BareNum}}

Inputs ==
  {<<P(kids)>> : kids \in ProseKids}
    \cup {<<P(<<VerseNum(Ref1)>> \o kids)>> : kids \in MarkerLedKids}
    \cup DivLedInputs
    \cup TopSeqs
    \cup {<<Div(ns)>> : ns \in TopSeqs}

\* ---------------------------------------------------- processPassageHTML
VARIABLES
  nodes,              \* the parsed fragment (html.ParseFragment's result)
  idx,                \* position of the range loop over nodes (1-based)
  pc,                 \* "top", "loop", "post", "done", "panic"
  activeVerseRef,     \* the driver's variable, and processNode's parameter
  n,                  \* <<node>>: the top-level node inside processNode
  children,           \* its children after line grouping
  i,                  \* position of the loop of lines 164-308 (1-based)
  newChildren,
  currentWrapper,
  shouldTrimLeading,
  buf,                \* the nodes rendered so far
  call,               \* a helper called on its own: <<name, arguments...>>
  ret,                \* <<what that call returned>>
  esv_cache,          \* the table: age in days of created_at -> number of rows
  count,              \* Expunge's variable
  epc,                \* Expunge: "idle", "start", "counting", "counted", "nil", "err"
  before,             \* history: the table when Expunge was called
  removed             \* history: the rows the count-based purge deleted

passageVars == <<nodes, idx, pc, activeVerseRef, n, children, i, newChildren,
                 currentWrapper, shouldTrimLeading, buf>>

unitVars == <<call, ret>>

cacheVars == <<esv_cache, count, epc, before, removed>>

vars == <<passageVars, unitVars, cacheVars>>

loopVars == <<n, children, i, newChildren, currentWrapper, shouldTrimLeading>>

Init ==
  /\ nodes \in Inputs
  /\ idx = 1
  /\ pc = "top"
  /\ activeVerseRef = <<>>
  /\ n = <<>>
  /\ children = <<>>
  /\ i = 1
  /\ newChildren = <<>>
  /\ currentWrapper = <<>>
  /\ shouldTrimLeading = FALSE
  /\ buf = <<>>
  /\ call = <<>>
  /\ ret = <<>>
  /\ esv_cache = <<>>
  /\ count = 0
  /\ epc = "idle"
  /\ before = <<>>
  /\ removed = <<>>

LoopState ==
  [newChildren |-> newChildren, currentWrapper |-> currentWrapper,
   shouldTrimLeading |-> shouldTrimLeading, activeVerseRef |-> activeVerseRef,
   panic |-> FALSE]

SetLoop(L) ==
  /\ newChildren' = L.newChildren
  /\ currentWrapper' = L.currentWrapper
  /\ shouldTrimLeading' = L.shouldTrimLeading
  /\ activeVerseRef' = L.activeVerseRef

Entered(p) ==
  /\ n' = <<p.n>>
  /\ children' = p.children
  /\ i' = 1
  /\ SetLoop(InitLoop(p.activeVerseRef))

Stepped(L) ==
  /\ SetLoop(L)
  /\ pc' = IF L.panic THEN "panic" ELSE "loop"

Exited(r) ==
  /\ n' = <<r.n>>
  /\ activeVerseRef' = r.ref
  /\ pc' = IF r.panic THEN "panic" ELSE "post"

\* lines 42-45
SkipEndLineGroup ==
  /\ pc = "top" /\ idx <= Len(nodes)
  /\ isEndLineGroup(nodes[idx])
  /\ idx' = idx + 1
  /\ UNCHANGED <<nodes, pc, activeVerseRef, loopVars, buf>>
  /\ UNCHANGED <<unitVars, cacheVars>>

\* a driver that wraps a top-level text node while a verse is active
ProcessNonElement_Wrapping ==
  /\ pc = "top" /\ idx <= Len(nodes)
  /\ ~isEndLineGroup(nodes[idx])
  /\ nodes[idx].Type # "element"
  /\ n' = <<IF activeVerseRef # <<>>
            THEN AppendChild(createVerseWrapper(activeVerseRef), nodes[idx])
            ELSE nodes[idx]>>
  /\ pc' = "post"
  /\ UNCHANGED <<nodes, idx, activeVerseRef, children, i, newChildren,
                 currentWrapper, shouldTrimLeading, buf>>
  /\ UNCHANGED <<unitVars, cacheVars>>

\* line 47 on a node that is not an element: processNode returns at once
ProcessNonElement ==
  /\ pc = "top" /\ idx <= Len(nodes)
  /\ ~isEndLineGroup(nodes[idx])
  /\ nodes[idx].Type # "element"
  /\ n' = <<nodes[idx]>>
  /\ pc' = "post"
  /\ UNCHANGED <<nodes, idx, activeVerseRef, children, i, newChildren,
                 currentWrapper, shouldTrimLeading, buf>>
  /\ UNCHANGED <<unitVars, cacheVars>>

\* line 47 on an element: processNode up to the loop of step 2
EnterNode ==
  /\ pc = "top" /\ idx <= Len(nodes)
  /\ ~isEndLineGroup(nodes[idx])
  /\ nodes[idx].Type = "element"
  /\ Entered(Prepare(nodes[idx], activeVerseRef))
  /\ pc' = "loop"
  /\ UNCHANGED <<nodes, idx, buf>>
  /\ UNCHANGED <<unitVars, cacheVars>>

\* one iteration of the loop of step 2 on a child of the given kind
Step(kind) ==
  /\ pc = "loop" /\ i <= Len(children)
  /\ ChildKind(children[i]) = kind
  /\ Stepped(StepChild(n[1], LoopState, children[i]))
  /\ i' = i + 1
  /\ UNCHANGED <<nodes, idx, n, children, buf>>
  /\ UNCHANGED <<unitVars, cacheVars>>

StepMarker == Step("marker")
StepCopyright == Step("copyright")
StepBlock == Step("block")
StepBr == Step("br")
StepLine == Step("line")
StepInline == Step("inline")
StepText == Step("text")

\* lines 309-323, and the assignment of line 47
ExitNode ==
  /\ pc = "loop" /\ i > Len(children)
  /\ Exited(Finalize(n[1], LoopState))
  /\ newChildren' = <<>>
  /\ currentWrapper' = <<>>
  /\ shouldTrimLeading' = FALSE
  /\ UNCHANGED <<nodes, idx, children, i, buf>>
  /\ UNCHANGED <<unitVars, cacheVars>>

\* lines 49-57
UnwrapP ==
  /\ pc = "post"
  /\ n[1].Tag = "p" /\ hasSection(n[1])
  /\ buf' = buf \o n[1].Kids
  /\ idx' = idx + 1
  /\ pc' = "top"
  /\ UNCHANGED <<nodes, activeVerseRef, loopVars>>
  /\ UNCHANGED <<unitVars, cacheVars>>

\* lines 59-62
FilterEmptyP ==
  /\ pc = "post"
  /\ ~(n[1].Tag = "p" /\ hasSection(n[1]))
  /\ n[1].Tag = "p" /\ n[1].Kids = <<>>
  /\ idx' = idx + 1
  /\ pc' = "top"
  /\ UNCHANGED <<nodes, activeVerseRef, loopVars, buf>>
  /\ UNCHANGED <<unitVars, cacheVars>>

\* lines 64-66
RenderNode ==
  /\ pc = "post"
  /\ ~(n[1].Tag = "p" /\ hasSection(n[1]))
  /\ ~(n[1].Tag = "p" /\ n[1].Kids = <<>>)
  /\ buf' = Append(buf, n[1])
  /\ idx' = idx + 1
  /\ pc' = "top"
  /\ UNCHANGED <<nodes, activeVerseRef, loopVars>>
  /\ UNCHANGED <<unitVars, cacheVars>>

\* line 69
Return ==
  /\ pc = "top" /\ idx > Len(nodes)
  /\ pc' = "done"
  /\ UNCHANGED <<nodes, idx, activeVerseRef, loopVars, buf>>
  /\ UNCHANGED <<unitVars, cacheVars>>

Next ==
  \/ SkipEndLineGroup
  \/ ProcessNonElement
  \/ EnterNode
  \/ StepMarker
  \/ StepCopyright
  \/ StepBlock
  \/ StepBr
  \/ StepLine
  \/ StepInline
  \/ StepText
  \/ ExitNode
  \/ UnwrapP
  \/ FilterEmptyP
  \/ RenderNode
  \/ Return

Spec == Init /\ [][Next]_vars

\* the string processPassageHTML returns
Output == RenderAll(buf)

\* =========================================================================
\* Vocabulary of the properties
\* =========================================================================
Returned == pc = "done"

RECURSIVE FlattenSeq(_)
\* the nodes of a tree, in document order
FlattenNode(x) == <<x>> \o FlattenSeq(x.Kids)
FlattenSeq(xs) == IF xs = <<>> THEN <<>> ELSE FlattenNode(xs[1]) \o FlattenSeq(Tail(xs))

\* an element that carries a verse id, or the class of one once the id is
\* stripped
IsMarker(x) ==
  x.Type = "element"
    /\ (getVerseRef(x) # <<>> \/ hasClass(x, "verse-num") \/ hasClass(x, "chapter-num"))

\* a child the loop of processNode places without entering it
IsLeafChild(c) == c.Type # "element" \/ IsMarker(c) \/ isCopyrightLink(c)

\* the nodes of a forest that the traversal visits, in document order: the
\* top-level nodes and, below an element, its children, but nothing below a
\* child that is a marker or a copyright link
RECURSIVE VisitedKids(_)
VisitedChild(c) == IF IsLeafChild(c) THEN <<c>> ELSE <<c>> \o VisitedKids(c.Kids)
VisitedKids(kids) ==
  IF kids = <<>> THEN <<>> ELSE VisitedChild(kids[1]) \o VisitedKids(Tail(kids))
RECURSIVE VisitedSeq(_)
VisitedSeq(xs) ==
  IF xs = <<>> THEN <<>> ELSE <<xs[1]>> \o VisitedKids(xs[1].Kids) \o VisitedSeq(Tail(xs))

\* the elements whose children the traversal visits: the top-level elements
\* and the element children that are entered
RECURSIVE ProcessedKids(_)
ProcessedChild(c) == IF IsLeafChild(c) THEN <<>> ELSE <<c>> \o ProcessedKids(c.Kids)
ProcessedKids(kids) ==
  IF kids = <<>> THEN <<>> ELSE ProcessedChild(kids[1]) \o ProcessedKids(Tail(kids))
RECURSIVE ProcessedSeq(_)
ProcessedTop(x) == IF x.Type = "element" THEN <<x>> \o ProcessedKids(x.Kids) ELSE <<>>
ProcessedSeq(xs) ==
  IF xs = <<>> THEN <<>> ELSE ProcessedTop(xs[1]) \o ProcessedSeq(Tail(xs))

Count(xs, Test(_)) == Cardinality({k \in 1..Len(xs) : Test(xs[k])})

AttrVal(x, key) == IF HasKey(x, key) THEN x.Attr[FirstKey(x, key)].Val ELSE <<>>

\* an element of the output that carries class "verse" and data-ref = ref
IsVerseElement(x, ref) ==
  x.Type = "element" /\ hasClass(x, "verse") /\ HasKey(x, "data-ref")
    /\ AttrVal(x, "data-ref") = ref

IsWrapper(x) == x.Type = "element" /\ x.Origin = "wrapper"

\* The visible content of a forest: the characters of its text nodes that
\* are not white space and the tags of its elements, in document order; the
\* spans the transformer creates as wrappers are transparent.
RECURSIVE Skel(_)
SkelNode(x) ==
  IF x.Type = "text" THEN SelectSeq(x.Data, LAMBDA ch : ~IsSpace(ch))
  ELSE IF x.Type # "element" THEN <<>>
  ELSE IF x.Origin = "wrapper" THEN Skel(x.Kids)
  ELSE <<"<", x.Tag>> \o Skel(x.Kids) \o <<">">>
Skel(xs) == IF xs = <<>> THEN <<>> ELSE SkelNode(xs[1]) \o Skel(Tail(xs))

\* The fragment as processNode sees it: in every element the children are
\* folded into line-group sections before they are visited.
RECURSIVE Grouped(_)
Grouped(x) ==
  IF x.Type # "element" THEN x
  ELSE LET g == GroupLines(x.Kids, 1, <<>>, FALSE)
       IN [x EXCEPT !.Kids = [k \in 1..Len(g) |-> Grouped(g[k])]]

GroupedInput == [k \in 1..Len(nodes) |-> Grouped(nodes[k])]

\* the places of the verse markers: [parent, k] with parent.Kids[k] a marker
MarkerPlaces ==
  UNION {{[parent |-> x, k |-> k] :
            k \in {k \in 1..Len(x.Kids) : getVerseRef(x.Kids[k]) # <<>>}} :
         x \in Range(FlattenSeq(GroupedInput))}

InputMarkerCount == Count(FlattenSeq(nodes), LAMBDA x : getVerseRef(x) # <<>>)

\* the children after position k up to the next child that is neither text
\* nor an inline element
RECURSIVE InlineRun(_, _)
InlineRun(sibs, k) ==
  IF k > Len(sibs) \/ ChildKind(sibs[k]) \notin {"text", "inline"} THEN <<>>
  ELSE <<sibs[k]>> \o InlineRun(sibs, k + 1)

\* =========================================================================
\* C1
\* =========================================================================
\* the wrappers of the output whose first child is the marker m
WrappersOf(m) ==
  LET out == FlattenSeq(Output) IN
  {j \in 1..Len(out) :
     /\ IsWrapper(out[j]) /\ out[j].Kids # <<>>
     /\ out[j].Kids[1].Type = "element"
     /\ SkelNode(out[j].Kids[1]) = SkelNode(m)}

\* C1 as stated: when the fragment holds exactly one verse marker, with
\* reference R and in a prose context, the returned output holds exactly one
\* element with class "verse" and data-ref R, and it wraps the marker and
\* the inline content that follows it.
C1_ExactlyOneVerseElement ==
  (Returned /\ InputMarkerCount = 1) =>
    \A pl \in MarkerPlaces :
      ~isStylizedLine(pl.parent) =>
        LET m == pl.parent.Kids[pl.k]
            out == FlattenSeq(Output)
            vs == {j \in 1..Len(out) : IsVerseElement(out[j], getVerseRef(m))}
        IN /\ Cardinality(vs) = 1
           /\ \A j \in vs :
                Skel(out[j].Kids) = Skel(<<m>> \o InlineRun(pl.parent.Kids, pl.k + 1))

\* C1 (amended): when the fragment holds exactly one verse marker, with
\* reference R and as a child of an element that is not a poetic line, the
\* returned output holds exactly one wrapper whose first child is the
\* marker; its class is "verse", its data-ref is R, and it holds the marker
\* and the text and inline elements that follow it up to the next block,
\* line-group section, poetic line, line break or copyright link.  (Other
\* elements may carry the same data-ref.)
C1_OneWrapperAtMarker ==
  (Returned /\ InputMarkerCount = 1) =>
    \A pl \in MarkerPlaces :
      ~isStylizedLine(pl.parent) =>
        LET m == pl.parent.Kids[pl.k]
            out == FlattenSeq(Output)
        IN /\ Cardinality(WrappersOf(m)) = 1
           /\ \A j \in WrappersOf(m) :
                /\ AttrVal(out[j], "class") = <<"verse">>
                /\ AttrVal(out[j], "data-ref") = getVerseRef(m)
                /\ Skel(out[j].Kids) = Skel(<<m>> \o InlineRun(pl.parent.Kids, pl.k + 1))

\* a returned run on a fragment with one prose marker that is followed by
\* text and by an inline element
C1_Witness ==
  /\ Returned /\ InputMarkerCount = 1
  /\ \E pl \in MarkerPlaces :
       /\ ~isStylizedLine(pl.parent)
       /\ Len(InlineRun(pl.parent.Kids, pl.k + 1)) >= 2
       /\ Cardinality(WrappersOf(pl.parent.Kids[pl.k])) = 1

\* =========================================================================
\* C2
\* =========================================================================
\* the poetic lines of a forest in document order
LinesOf(forest) ==
  SelectSeq(VisitedSeq(forest), LAMBDA x : x.Type = "element" /\ isStylizedLine(x))

\* the data-ref a line is tagged with, <<>> when it is not tagged
TagOf(x) == IF hasClass(x, "verse") THEN AttrVal(x, "data-ref") ELSE <<>>

OutputLineTags == [k \in 1..Len(LinesOf(Output)) |-> TagOf(LinesOf(Output)[k])]

HasMarkerInside(x) == \E k \in 1..Len(FlattenSeq(x.Kids)) : getVerseRef(FlattenSeq(x.Kids)[k]) # <<>>

\* the reference of the last marker of a forest (<<>> when it has none)
LastMarkerRef(xs) ==
  LET ms == SelectSeq(xs, LAMBDA x : getVerseRef(x) # <<>>)
  IN IF ms = <<>> THEN <<>> ELSE getVerseRef(ms[Len(ms)])

\* the reference that governs the j-th node of the fragment as the claim
\* words it: the marker inside the line, otherwise the last marker before it
ClaimedRef(all, j) ==
  IF HasMarkerInside(all[j]) THEN LastMarkerRef(FlattenSeq(all[j].Kids))
  ELSE LastMarkerRef(SubSeq(all, 1, j - 1))

ClaimedLineTags ==
  LET all == FlattenSeq(nodes)
      js == SelectSeq([j \in 1..Len(all) |-> j],
                      LAMBDA j : all[j].Type = "element" /\ isStylizedLine(all[j]))
  IN [k \in 1..Len(js) |-> ClaimedRef(all, js[k])]

IsSyntheticSection(x) == x.Type = "element" /\ x.Origin = "section"

HasCopyrightChild(x) ==
  \E k \in 1..Len(x.Kids) :
    \/ isCopyrightLink(x.Kids[k])
    \/ /\ IsSyntheticSection(x.Kids[k])
       /\ \E q \in 1..Len(x.Kids[k].Kids) : isCopyrightLink(x.Kids[k].Kids[q])

RECURSIVE ExpectedTags(_, _)
RECURSIVE ExpectedTagsKids(_, _, _)
ExpectedTagsKids(kids, k, acc) ==
  IF k > Len(kids) THEN acc
  ELSE LET c == kids[k] IN
       IF c.Type # "element" THEN ExpectedTagsKids(kids, k + 1, acc)
       ELSE IF getVerseRef(c) # <<>>
       THEN ExpectedTagsKids(kids, k + 1, [acc EXCEPT !.ref = getVerseRef(c)])
       ELSE IF isCopyrightLink(c)
       THEN ExpectedTagsKids(kids, k + 1, [acc EXCEPT !.ref = <<>>])
       ELSE LET r == ExpectedTags(c, acc.ref) IN
            IF isStylizedLine(c)
            THEN ExpectedTagsKids(kids, k + 1,
                   [tags |-> acc.tags \o <<r.ref>> \o r.tags, ref |-> r.ref])
            ELSE IF isBlock(c)
            THEN ExpectedTagsKids(kids, k + 1, [tags |-> acc.tags \o r.tags, ref |-> r.ref])
            ELSE ExpectedTagsKids(kids, k + 1, [tags |-> acc.tags \o r.tags, ref |-> acc.ref])

ExpectedTags(x, ref) ==
  IF x.Type # "element" THEN [tags |-> <<>>, ref |-> ref]
  ELSE ExpectedTagsKids(x.Kids, 1,
         [tags |-> <<>>, ref |-> IF HasCopyrightChild(x) THEN <<>> ELSE ref])

\* the top-level nodes: a top-level line is not tagged by the driver
RECURSIVE ExpectedTagsTop(_, _, _)
ExpectedTagsTop(xs, k, acc) ==
  IF k > Len(xs) THEN acc.tags
  ELSE IF isEndLineGroup(xs[k]) THEN ExpectedTagsTop(xs, k + 1, acc)
  ELSE LET r == ExpectedTags(xs[k], acc.ref)
           own == IF xs[k].Type = "element" /\ isStylizedLine(xs[k]) THEN <<<<>>>> ELSE <<>>
       IN ExpectedTagsTop(xs, k + 1, [tags |-> acc.tags \o own \o r.tags, ref |-> r.ref])

ExpectedLineTags == ExpectedTagsTop(GroupedInput, 1, [tags |-> <<>>, ref |-> <<>>])

HasWrapperBelow(x) ==
  \E k \in 1..Len(FlattenSeq(x.Kids)) : IsWrapper(FlattenSeq(x.Kids)[k])

\* C3: in the returned output no poetic line has a descendant wrapper span
\* created by the transformer.
C3_NoWrapperInsideLine ==
  Returned =>
    \A k \in 1..Len(LinesOf(Output)) : ~HasWrapperBelow(LinesOf(Output)[k])

\* =========================================================================
\* C4
\* =========================================================================
\* the positions of the verse markers among the children of x
MarkerPositions(x) == {k \in 1..Len(x.Kids) : getVerseRef(x.Kids[k]) # <<>>}

\* the paragraphs of the fragment with exactly two marker children
TwoMarkerParagraphs ==
  {x \in Range(FlattenSeq(nodes)) :
     x.Type = "element" /\ x.Tag = "p" /\ Cardinality(MarkerPositions(x)) = 2}

FirstMarker(x) == CHOOSE a \in MarkerPositions(x) : \A b \in MarkerPositions(x) : a <= b
SecondMarker(x) == CHOOSE b \in MarkerPositions(x) : \A a \in MarkerPositions(x) : a <= b

Between(x) == SubSeq(x.Kids, FirstMarker(x) + 1, SecondMarker(x) - 1)

\* only text and inline elements lie between the two markers
InlineBetween(x) ==
  \A k \in 1..Len(Between(x)) :
    /\ ChildKind(Between(x)[k]) \in {"text", "inline"}
    /\ ~isBeginLineGroup(Between(x)[k]) /\ ~isEndLineGroup(Between(x)[k])

EndsInCutset(w) ==
  /\ w.Kids # <<>> /\ w.Kids[Len(w.Kids)].Type = "text"
  /\ \/ w.Kids[Len(w.Kids)].Data = <<>>
     \/ w.Kids[Len(w.Kids)].Data[Len(w.Kids[Len(w.Kids)].Data)] \in cutset

\* the child lists of the output: of every element, and the top level
OutputLists == {Output} \cup {y.Kids : y \in Range(FlattenSeq(Output))}

\* w1 and w2 are wrappers for R1 and R2, each led by its marker; w1 holds the
\* marker and the content between the markers and nothing else, with no
\* white space at its end
WrapsPair(x, w1, w2) ==
  /\ IsWrapper(w1) /\ IsVerseElement(w1, getVerseRef(x.Kids[FirstMarker(x)]))
  /\ IsWrapper(w2) /\ IsVerseElement(w2, getVerseRef(x.Kids[SecondMarker(x)]))
  /\ w2.Kids # <<>> /\ SkelNode(w2.Kids[1]) = SkelNode(x.Kids[SecondMarker(x)])
  /\ Skel(w1.Kids) = Skel(<<x.Kids[FirstMarker(x)]>> \o Between(x))
  /\ ~EndsInCutset(w1)

SiblingWrappers(x) ==
  \E kids \in OutputLists :
    \E j \in 1..(Len(kids) - 1) : WrapsPair(x, kids[j], kids[j + 1])

\* C4 as stated: for a paragraph with two verse markers R1 then R2 the
\* output holds two sibling wrappers R1, R2, the first holding exactly the
\* content between the markers, closed right before the second marker and
\* trimmed at its end.
C4_TwoSiblingWrappers ==
  Returned => \A x \in TwoMarkerParagraphs : SiblingWrappers(x)

\* C4 (amended): the same, for a paragraph in which only text and inline
\* elements lie between the two markers (no line break, poetic line,
\* copyright link or line-group marker).
C4_TwoSiblingWrappersInline ==
  Returned => \A x \in TwoMarkerParagraphs : InlineBetween(x) => SiblingWrappers(x)

\* a returned run on a paragraph whose two markers are separated by a text
\* that ends in white space
C4_Witness ==
  /\ Returned
  /\ \E x \in TwoMarkerParagraphs :
       /\ InlineBetween(x) /\ Len(Between(x)) = 1
       /\ Between(x)[1].Type = "text"
       /\ Between(x)[1].Data[Len(Between(x)[1].Data)] \in cutset
       /\ ~TrimSpaceIsEmpty(Between(x)[1].Data)
       /\ SiblingWrappers(x)

\* =========================================================================
\* C5
\* =========================================================================
IsBlankText(x) == x.Type = "text" /\ TrimSpaceIsEmpty(x.Data)

\* the pairs <<j, j2>> of a child list: two elements with nothing but a
\* white-space text between them
NextElementPairs(kids) ==
  {pr \in (1..Len(kids)) \X (1..Len(kids)) :
     /\ kids[pr[1]].Type = "element" /\ kids[pr[2]].Type = "element"
     /\ \/ pr[2] = pr[1] + 1
        \/ pr[2] = pr[1] + 2 /\ IsBlankText(kids[pr[1] + 1])}

\* the child lists of the fragment: the top level and every element's
InputLists == {nodes} \cup {y.Kids : y \in Range(FlattenSeq(nodes))}

\* a block container that the output keeps (a paragraph that holds a line
\* group is dissolved)
IsContainer(x) ==
  x.Type = "element" /\ isBlock(x) /\ getVerseRef(x) = <<>> /\ ~hasSection(Grouped(x))

\* a verse begins in b1 and is still open at its end: b1 has a marker child
\* and only text and inline elements without markers behind the last one
VerseOpenAtEnd(b1) ==
  /\ IsContainer(b1) /\ MarkerPositions(b1) # {}
  /\ \A k \in 1..Len(b1.Kids) :
       (\A a \in MarkerPositions(b1) : a < k) =>
          /\ ChildKind(b1.Kids[k]) \in {"text", "inline"}
          /\ ~HasMarkerInside(b1.Kids[k])
  /\ \A k \in 1..Len(b1.Kids) : ~HasMarkerInside(b1.Kids[k])

OpenRef(b1) == LastMarkerRef(b1.Kids)

\* b2 continues the verse: no marker in it, and it begins with text or
\* inline elements that hold visible content
Continues(b2) ==
  /\ IsContainer(b2) /\ ~HasMarkerInside(b2)
  /\ Skel(InlineRun(b2.Kids, 1)) # <<>>

\* in the output: b1 with the wrapper led by its marker, then b2 whose first
\* child is a second wrapper, for the same reference, holding the
\* continuation
ContinuationWrapped(b1, b2) ==
  \E kids \in OutputLists :
    \E pr \in NextElementPairs(kids) :
      /\ SkelNode(kids[pr[1]]) = SkelNode(b1)
      /\ SkelNode(kids[pr[2]]) = SkelNode(b2)
      /\ \E k \in 1..Len(kids[pr[1]].Kids) :
           /\ IsWrapper(kids[pr[1]].Kids[k])
           /\ IsVerseElement(kids[pr[1]].Kids[k], OpenRef(b1))
      /\ kids[pr[2]].Kids # <<>>
      /\ IsWrapper(kids[pr[2]].Kids[1])
      /\ IsVerseElement(kids[pr[2]].Kids[1], OpenRef(b1))
      /\ Skel(kids[pr[2]].Kids[1].Kids) = Skel(InlineRun(b2.Kids, 1))

ContinuationPairs ==
  {bb \in UNION {{<<kids[pr[1]], kids[pr[2]]>> : pr \in NextElementPairs(kids)} :
                 kids \in InputLists} :
     VerseOpenAtEnd(bb[1]) /\ Continues(bb[2])}

\* C5 as stated: when a verse R begins in one block container and its text
\* continues without a marker in the next one, the continuation is wrapped
\* in a new wrapper inside the second container with the same data-ref R.
C5_ContinuationWrapped ==
  Returned => \A bb \in ContinuationPairs : ContinuationWrapped(bb[1], bb[2])

HasCopyrightLink(x) == \E k \in 1..Len(x.Kids) : isCopyrightLink(x.Kids[k])

\* C5 (amended): the same, provided the second container has no copyright
\* link among its children (such a link clears the active reference when
\* its container is entered, so the continuation is left unwrapped).
C5_ContinuationWrappedNoCopyright ==
  Returned =>
    \A bb \in ContinuationPairs :
      ~HasCopyrightLink(bb[2]) => ContinuationWrapped(bb[1], bb[2])

\* a returned run on two paragraphs, the verse of the first continued in
\* the second, each with its own wrapper
C5_Witness ==
  /\ Returned
  /\ \E bb \in ContinuationPairs :
       /\ bb[1].Tag = "p" /\ bb[2].Tag = "p"
       /\ ~HasCopyrightLink(bb[2])
       /\ ContinuationWrapped(bb[1], bb[2])

\* =========================================================================
\* C6
\* =========================================================================
\* a verse marker as it stands in the output (the id of a b is stripped, so
\* the marker is known by its class)
IsMarkerOut(x) ==
  x.Type = "element" /\ (hasClass(x, "verse-num") \/ hasClass(x, "chapter-num"))

\* a wrapper led by a marker, or a tagged line with a marker child: the
\* elements a new marker accounts for
OpensVerse(x) ==
  /\ x.Type = "element" /\ x.Kids # <<>>
  /\ \/ IsWrapper(x) /\ IsMarkerOut(x.Kids[1])
     \/ isStylizedLine(x) /\ \E k \in 1..Len(x.Kids) : IsMarkerOut(x.Kids[k])

IsWrappedOrTagged(x) ==
  x.Type = "element" /\ (IsWrapper(x) \/ (isStylizedLine(x) /\ hasClass(x, "verse")))

\* the next position behind j in out that holds a marker (Len(out) + 1 when
\* there is none)
NextMarkerPos(out, j) ==
  IF \E q \in (j + 1)..Len(out) : IsMarkerOut(out[q])
  THEN CHOOSE q \in (j + 1)..Len(out) :
         IsMarkerOut(out[q]) /\ \A q2 \in (j + 1)..(q - 1) : ~IsMarkerOut(out[q2])
  ELSE Len(out) + 1

\* C6: in the returned output every copyright link is unwrapped and
\* unchanged, and nothing between it and the next verse marker is wrapped or
\* tagged.
C6_NothingWrappedAfterCopyright ==
  Returned =>
    LET out == FlattenSeq(Output) IN
    \A j \in 1..Len(out) :
      isCopyrightLink(out[j]) =>
        /\ ~HasWrapperBelow(out[j])
        /\ \A q \in 1..Len(out) :
             IsWrapper(out[q]) => \A k \in 1..Len(out[q].Kids) : out[q].Kids[k] # out[j]
        /\ \A q \in (j + 1)..(NextMarkerPos(out, j) - 1) :
             IsWrappedOrTagged(out[q]) => OpensVerse(out[q])

\* =========================================================================
\* C7
\* =========================================================================
SubSeqOrEmpty(xs, a, b) == IF a > b THEN <<>> ELSE SubSeq(xs, a, b)

\* the runs begin-line-group, poetic lines, end-line-group among the
\* siblings of the list xs
LineRunsIn(xs) ==
  {r \in [xs : {xs}, a : 1..Len(xs), b : 1..Len(xs)] :
     /\ r.a + 1 < r.b
     /\ isBeginLineGroup(xs[r.a]) /\ isEndLineGroup(xs[r.b])
     /\ \A k \in (r.a + 1)..(r.b - 1) : isStylizedLine(xs[k])}

LineRuns == UNION {LineRunsIn(xs) : xs \in InputLists}

\* s is a line-group section that holds the lines of the run r
FoldsRun(s, r) ==
  /\ s.Type = "element" /\ s.Tag = "section" /\ hasClass(s, "line-group")
  /\ Len(s.Kids) = r.b - r.a - 1
  /\ \A k \in 1..Len(s.Kids) : isStylizedLine(s.Kids[k])
  /\ Skel(s.Kids) = Skel(SubSeqOrEmpty(r.xs, r.a + 1, r.b - 1))

\* every line-group span of the input is an end of such a run
AllGroupsMatched ==
  \A xs \in InputLists : \A k \in 1..Len(xs) :
    (isBeginLineGroup(xs[k]) \/ isEndLineGroup(xs[k])) =>
      \E r \in LineRunsIn(xs) : k \in {r.a, r.b}

\* C7: when the line-group spans of the input come in runs of a
\* begin-line-group span, poetic lines and an end-line-group span, every run
\* is output as one section.line-group holding those lines, and no
\* begin-line-group or end-line-group span is left in the output, the top
\* level of the fragment included.
C7_LineGroupFolded ==
  (Returned /\ AllGroupsMatched) =>
    LET out == FlattenSeq(Output) IN
    /\ \A k \in 1..Len(out) : ~isBeginLineGroup(out[k]) /\ ~isEndLineGroup(out[k])
    /\ \A r \in LineRuns : \E k \in 1..Len(out) : FoldsRun(out[k], r)

\* =========================================================================
\* C8
\* =========================================================================
\* the run has stopped: the string was returned or the process was aborted
Terminal == pc \in {"done", "panic"}

\* the paragraphs of the input, at the top level or as a child of a block
\* element, that hold a line-group section once their children are folded
SectionParagraphsIn(xs) ==
  {k \in 1..Len(xs) : xs[k].Type = "element" /\ xs[k].Tag = "p" /\ hasSection(Grouped(xs[k]))}

TopSectionParagraphs == SectionParagraphsIn(nodes)

NestedSectionParagraphs ==
  UNION {{[parent |-> y, k |-> k] : k \in SectionParagraphsIn(y.Kids)} :
         y \in {y \in Range(FlattenSeq(nodes)) : y.Type = "element" /\ isBlock(y)}}

\* The visible content with the dissolved paragraphs left out: a paragraph
\* that holds a section, or that shows nothing, contributes its children
\* only.
RECURSIVE PromotedSkel(_)
PromotedSkelNode(x) ==
  IF x.Type = "text" THEN SelectSeq(x.Data, LAMBDA ch : ~IsSpace(ch))
  ELSE IF x.Type # "element" THEN <<>>
  ELSE IF x.Origin = "wrapper" THEN PromotedSkel(x.Kids)
  ELSE IF x.Tag = "p" /\ (hasSection(x) \/ Skel(x.Kids) = <<>>) THEN PromotedSkel(x.Kids)
  ELSE <<"<", x.Tag>> \o PromotedSkel(x.Kids) \o <<">">>
PromotedSkel(xs) ==
  IF xs = <<>> THEN <<>> ELSE PromotedSkelNode(xs[1]) \o PromotedSkel(Tail(xs))

\* the fragment as the driver walks it: a top-level end-line-group span is
\* skipped
DriverInput == SelectSeq(GroupedInput, LAMBDA x : ~isEndLineGroup(x))

\* C8: when the input has a paragraph that holds a line-group section, at
\* the top level or as a child of a block element, the run ends with the
\* string returned, no paragraph of the output holds a section, and the
\* children of the dissolved paragraphs stand in order where the paragraphs
\* stood.
C8_SectionParagraphUnwrapped ==
  (Terminal /\ (TopSectionParagraphs # {} \/ NestedSectionParagraphs # {})) =>
    /\ Returned
    /\ \A y \in Range(FlattenSeq(Output)) :
         (y.Type = "element" /\ y.Tag = "p") => ~hasSection(y)
    /\ PromotedSkel(Output) = PromotedSkel(DriverInput)

\* =========================================================================
\* C9
\* =========================================================================
\* C9: the transformation never aborts part-way: no run reaches the state
\* in which AppendChild has panicked.
C9_NeverAborts == pc # "panic"

\* =========================================================================
\* C10
\* =========================================================================
InCutset(d) == \A k \in 1..Len(d) : d[k] \in cutset

\* behind a marker before position k of xs stand only text nodes made of
\* cut-set characters
TrimPending(xs, k) ==
  \E m \in 1..(k - 1) :
    /\ ChildKind(xs[m]) = "marker"
    /\ \A q \in (m + 1)..(k - 1) : ChildKind(xs[q]) = "text" /\ InCutset(xs[q].Data)

\* no text node behind the last marker before position k of xs has a
\* character outside the cut set
NoContentSinceMarker(xs, k) ==
  \E m \in 1..(k - 1) :
    /\ ChildKind(xs[m]) = "marker"
    /\ \A q \in (m + 1)..(k - 1) :
         /\ ChildKind(xs[q]) # "marker"
         /\ ChildKind(xs[q]) = "text" => InCutset(xs[q].Data)

\* C10: in the loop over the children of a node the trim-leading flag is
\* set while only text nodes without a character outside the cut set have
\* been met since the marker, and it is never set once a text node behind
\* the last marker has kept such a character; in the output the text that
\* follows the marker inside a wrapper does not begin with a character of
\* the cut set.
C10_LeadingTrimAfterMarker ==
  /\ pc = "loop" =>
       /\ TrimPending(children, i) => shouldTrimLeading
       /\ shouldTrimLeading => NoContentSinceMarker(children, i)
  /\ Returned =>
       \A w \in Range(FlattenSeq(Output)) :
         (IsWrapper(w) /\ Len(w.Kids) >= 2 /\ IsMarkerOut(w.Kids[1])
            /\ w.Kids[2].Type = "text") =>
           w.Kids[2].Data[1] \notin cutset

\* a marker, a text node of cut-set characters only and a text node with
\* leading white space have been visited: the flag stayed set across the
\* first text node, the second one lost its leading white space and cleared
\* the flag
C10_Witness ==
  /\ pc = "loop" /\ i >= 4 /\ ~shouldTrimLeading
  /\ ChildKind(children[i - 3]) = "marker"
  /\ children[i - 2].Type = "text" /\ InCutset(children[i - 2].Data)
  /\ children[i - 1].Type = "text" /\ ~InCutset(children[i - 1].Data)
  /\ children[i - 1].Data[1] \in cutset
  /\ currentWrapper # <<>>
  /\ Len(currentWrapper[1].Kids) = 3
  /\ currentWrapper[1].Kids[2].Data = <<>>
  /\ currentWrapper[1].Kids[3].Data # <<>>
  /\ currentWrapper[1].Kids[3].Data[1] \notin cutset

\* =========================================================================
\* C11
\* =========================================================================
LastKid(x) == x.Kids[Len(x.Kids)]

\* the last child of w is a text node of white space only, or one that ends
\* in a character of the cut set
EndsInWhitespace(w) ==
  /\ w.Kids # <<>> /\ LastKid(w).Type = "text"
  /\ \/ TrimSpaceIsEmpty(LastKid(w).Data)
     \/ LastKid(w).Data[Len(LastKid(w).Data)] \in cutset

\* C11: in the returned output no verse wrapper ends in white space: the
\* last child of a wrapper is never a text node that is white space only
\* or that ends in a character of the cut set.
C11_NoWrapperEndsInWhitespace ==
  Returned =>
    \A w \in Range(FlattenSeq(Output)) : IsWrapper(w) => ~EndsInWhitespace(w)

\* =========================================================================
\* C12
\* =========================================================================
IsWhitespaceText(x) == x.Type = "text" /\ TrimSpaceIsEmpty(x.Data)

\* the positions of the white-space-only text nodes of xs, in order
WhitespacePositions(xs) ==
  SelectSeq([k \in 1..Len(xs) |-> k], LAMBDA k : IsWhitespaceText(xs[k]))

\* the line-group sections, in document order, as processNode builds them
\* from the input and as they stand in the rendered tree
InSections == SelectSeq(FlattenSeq(GroupedInput), IsSyntheticSection)
OutSections == SelectSeq(FlattenSeq(buf), IsSyntheticSection)

\* the white-space-only text children of the section a are the
\* white-space-only text children of b, with the same data and with the same
\* visible content in front of each
WhitespaceKept(a, b) ==
  LET pa == WhitespacePositions(a.Kids)
      pb == WhitespacePositions(b.Kids)
  IN /\ Len(pa) = Len(pb)
     /\ \A q \in 1..Len(pa) :
          /\ b.Kids[pb[q]].Data = a.Kids[pa[q]].Data
          /\ PromotedSkel(SubSeqOrEmpty(b.Kids, 1, pb[q] - 1))
               = PromotedSkel(SubSeqOrEmpty(a.Kids, 1, pa[q] - 1))

\* C12: every white-space-only text node that is a direct child of a
\* line-group section is a direct child of that section in the output, with
\* its data unchanged and at its place among the section's content.
C12_SectionWhitespaceKept ==
  Returned =>
    /\ Len(OutSections) = Len(InSections)
    /\ \A j \in 1..Len(InSections) : WhitespaceKept(InSections[j], OutSections[j])

\* =========================================================================
\* getVerseRef called on its own
\* =========================================================================
\* longest id enumerated: "v", the digits and a suffix of one character
MaxIdLen == 10

IdChars == {"v", "1", "-"}

IdVals == SeqsUpTo(IdChars, MaxIdLen)

\* an element with that id, an element without an id, and nodes that are
\* not elements
RefInputs ==
  {Elem("b", <<Class(<<"verse-num">>), Id(val)>>, <<>>) : val \in IdVals}
    \cup {Elem("b", <<Class(<<"verse-num">>)>>, <<>>),
          NewText(<<"v", "1", "1", "1", "1", "1", "1", "1", "1">>),
          [NewText(<<"v", "1", "1", "1", "1", "1", "1", "1", "1">>) EXCEPT !.Type = "comment"]}

\* no passage is being transformed
PassageIdle ==
  /\ nodes = <<>>
  /\ idx = 1
  /\ pc = "unit"
  /\ activeVerseRef = <<>>
  /\ n = <<>>
  /\ children = <<>>
  /\ i = 1
  /\ newChildren = <<>>
  /\ currentWrapper = <<>>
  /\ shouldTrimLeading = FALSE
  /\ buf = <<>>

\* Expunge is not running
CacheIdle ==
  /\ esv_cache = <<>>
  /\ count = 0
  /\ epc = "idle"
  /\ before = <<>>
  /\ removed = <<>>

InitRef ==
  /\ PassageIdle
  /\ CacheIdle
  /\ call \in {<<"getVerseRef", x>> : x \in RefInputs}
  /\ ret = <<>>

\* ref := getVerseRef(c)
CallGetVerseRef ==
  /\ call # <<>> /\ call[1] = "getVerseRef" /\ ret = <<>>
  /\ ret' = <<getVerseRef(call[2])>>
  /\ UNCHANGED <<passageVars, call, cacheVars>>

NextRef == CallGetVerseRef

SpecRef == InitRef /\ [][NextRef]_vars

\* =========================================================================
\* C13
\* =========================================================================
\* val is "v", then 8 digits, then any suffix
IsVerseId(val) ==
  \E suffix \in 0..Len(val) :
    /\ Len(val) = 1 + 8 + suffix
    /\ Head(val) = "v"
    /\ \A k \in 1..8 : val[1 + k] \in Digits

Refs == {Ref1, Ref2}

\* the markers with reference R that are children of an element the
\* traversal enters, other than a poetic line: <<j, k>> with the k-th child
\* of the j-th such element a marker
ProseMarkers(R) ==
  LET flat == ProcessedSeq(GroupedInput) IN
  UNION {{<<j, k>> : k \in {k \in 1..Len(flat[j].Kids) :
                               getVerseRef(flat[j].Kids[k]) = R}} :
         j \in {j \in 1..Len(flat) :
                  flat[j].Type = "element" /\ ~isStylizedLine(flat[j])}}

\* the markers with reference R that are top-level nodes of the fragment
TopMarkers(R) == {k \in 1..Len(nodes) : getVerseRef(nodes[k]) = R}

\* the spans of the output with exactly class "verse" and data-ref R whose
\* first child is a marker
MarkerWrappers(R) ==
  LET out == VisitedSeq(Output) IN
  {j \in 1..Len(out) :
     /\ IsWrapper(out[j]) /\ out[j].Tag = "span"
     /\ out[j].Attr = <<[Key |-> "class", Val |-> <<"verse">>],
                        [Key |-> "data-ref", Val |-> R]>>
     /\ out[j].Kids # <<>> /\ IsMarkerOut(out[j].Kids[1])}

\* every marker below y is the first child of a wrapper or a child of a
\* poetic line
MarkersLeadWrappers(y) ==
  \A k \in 1..Len(y.Kids) :
    IsMarkerOut(y.Kids[k]) => (isStylizedLine(y) \/ (IsWrapper(y) /\ k = 1))

\* C14 as stated: every verse marker outside a poetic line, the top-level
\* nodes of the fragment included, gets a new span with exactly class
\* "verse" and data-ref R of which it is the first child.
C14_WrapperPerMarker ==
  Returned =>
    /\ \A R \in Refs :
         Cardinality(MarkerWrappers(R))
           = Cardinality(ProseMarkers(R)) + Cardinality(TopMarkers(R))
    /\ \A y \in Range(ProcessedSeq(Output)) : MarkersLeadWrappers(y)
    /\ \A k \in 1..Len(Output) : ~IsMarkerOut(Output[k])

\* C14 (amended): every verse marker that is a child of an element the
\* traversal enters, other than a poetic line, gets a new span with exactly
\* class "verse" and data-ref R of which it is the first child; a marker that is a top-level
\* node of the fragment gets none.
C14_WrapperPerChildMarker ==
  Returned =>
    /\ \A R \in Refs : Cardinality(MarkerWrappers(R)) = Cardinality(ProseMarkers(R))
    /\ \A y \in Range(ProcessedSeq(Output)) : MarkersLeadWrappers(y)

\* a returned run on a fragment with two markers of the same reference in
\* prose, each leading its own wrapper
C14_Witness ==
  /\ Returned
  /\ \E R \in Refs : Cardinality(ProseMarkers(R)) = 2 /\ Cardinality(MarkerWrappers(R)) = 2

\* =========================================================================
\* C15
\* =========================================================================
\* C15: in the returned output no child of an element carries a verse id:
\* every element that was detected as a marker has lost its id.
C15_NoVerseIdLeft ==
  Returned =>
    \A y \in Range(FlattenSeq(Output)) :
      \A k \in 1..Len(y.Kids) : getVerseRef(y.Kids[k]) = <<>>

\* =========================================================================
\* hasClass, addClass and removeClass called on their own
\* =========================================================================
\* Here the value of the class attribute is the string of the source; the
\* passage model above keeps it as its fields.

\* strings.Fields: the maximal runs of characters that are not white space
RECURSIVE Fields(_)
FieldEnd(s) ==
  CHOOSE k \in 1..Len(s) :
    /\ \A j \in 1..k : ~IsSpace(s[j])
    /\ k = Len(s) \/ IsSpace(s[k + 1])
FieldsFrom(s, k) == <<SubSeq(s, 1, k)>> \o Fields(SubSeq(s, k + 1, Len(s)))
Fields(s) ==
  IF s = <<>> THEN <<>>
  ELSE IF IsSpace(s[1]) THEN Fields(Tail(s))
  ELSE FieldsFrom(s, FieldEnd(s))

\* strings.Join(fields, " ")
RECURSIVE Join(_)
Join(fields) ==
  IF fields = <<>> THEN <<>>
  ELSE IF Len(fields) = 1 THEN fields[1]
  ELSE fields[1] \o <<" ">> \o Join(Tail(fields))

\* lines 416-425
hasClassStr(node, class) ==
  \E k \in 1..Len(node.Attr) :
    node.Attr[k].Key = "class" /\ class \in Range(Fields(node.Attr[k].Val))

\* addClassStr without the hasClass test: the token is appended every time
addClassStr_NoTest(node, newClass) ==
  IF HasKey(node, "class")
  THEN [node EXCEPT !.Attr[FirstKey(node, "class")].Val = @ \o <<" ">> \o newClass]
  ELSE [node EXCEPT !.Attr = Append(@, [Key |-> "class", Val |-> newClass])]

\* lines 427-437
addClassStr(node, newClass) ==
  IF HasKey(node, "class")
  THEN IF hasClassStr(node, newClass) THEN node
       ELSE [node EXCEPT !.Attr[FirstKey(node, "class")].Val = @ \o <<" ">> \o newClass]
  ELSE [node EXCEPT !.Attr = Append(@, [Key |-> "class", Val |-> newClass])]

\* lines 439-462
RemovedAt(node, k, target, newFields) ==
  IF target \notin Range(Fields(node.Attr[k].Val)) THEN node
  ELSE IF newFields = <<>> THEN [node EXCEPT !.Attr = RemoveAt(@, k)]
  ELSE [node EXCEPT !.Attr[k].Val = Join(newFields)]

removeClassAt(node, k, target) ==
  RemovedAt(node, k, target, DropToken(Fields(node.Attr[k].Val), target))

removeClassStr(node, target) ==
  IF ~HasKey(node, "class") THEN node ELSE removeClassAt(node, FirstKey(node, "class"), target)

\* longest class value enumerated
MaxClassLen == 5

ClassChars == {"a", "b", " "}

ClassVals == SeqsUpTo(ClassChars, MaxClassLen)

ClassTokens == {<<"a">>, <<"b">>, <<"a", "b">>}

\* elements with the class attribute alone, behind an id, or absent
ClassInputs ==
  {NewElement("span", <<[Key |-> "class", Val |-> v]>>, <<>>, "parsed") : v \in ClassVals}
    \cup {NewElement("span", <<Id(LineId), [Key |-> "class", Val |-> v]>>, <<>>, "parsed") :
            v \in ClassVals}
    \cup {NewElement("span", <<>>, <<>>, "parsed"),
          NewElement("span", <<Id(LineId)>>, <<>>, "parsed")}

InitClass ==
  /\ PassageIdle
  /\ CacheIdle
  /\ call \in {<<f, x, t>> : f \in {"addClass", "removeClass"}, x \in ClassInputs,
                             t \in ClassTokens}
  /\ ret = <<>>

\* the node the next call works on: the argument, or what the last call left
Current == IF ret = <<>> THEN call[2] ELSE ret[Len(ret)]

\* addClass(n, newClass), up to twice on the same node
CallAddClass ==
  /\ call # <<>> /\ call[1] = "addClass" /\ Len(ret) < 2
  /\ ret' = Append(ret, addClassStr(Current, call[3]))
  /\ UNCHANGED <<passageVars, call, cacheVars>>

\* removeClass(n, target), up to twice on the same node
CallRemoveClass ==
  /\ call # <<>> /\ call[1] = "removeClass" /\ Len(ret) < 2
  /\ ret' = Append(ret, removeClassStr(Current, call[3]))
  /\ UNCHANGED <<passageVars, call, cacheVars>>

NextClass == CallAddClass \/ CallRemoveClass

SpecClass == InitClass /\ [][NextClass]_vars

\* =========================================================================
\* C16
\* =========================================================================
\* the class list of x: the fields of its class attribute
ClassOf(x) == Fields(AttrVal(x, "class"))

OtherAttrs(x) == SelectSeq(x.Attr, LAMBDA a : a.Key # "class")

\* y is x with the class list cl, everything else as it was
SameButClass(x, y, cl) ==
  /\ ClassOf(y) = cl
  /\ Len(y.Attr) = Len(x.Attr)
  /\ \A k \in 1..Len(x.Attr) :
       y.Attr[k].Key = x.Attr[k].Key
         /\ (x.Attr[k].Key # "class" => y.Attr[k] = x.Attr[k])
  /\ [y EXCEPT !.Attr = <<>>] = [x EXCEPT !.Attr = <<>>]

AddClassAsClaimed(x, t, y) ==
  IF ~HasKey(x, "class")
  THEN y = [x EXCEPT !.Attr = Append(@, [Key |-> "class", Val |-> t])]
  ELSE IF t \in Range(ClassOf(x)) THEN y = x
  ELSE SameButClass(x, y, Append(ClassOf(x), t))

RemoveClassAsClaimed(x, t, y) ==
  IF ~HasKey(x, "class") \/ t \notin Range(ClassOf(x)) THEN y = x
  ELSE IF \A k \in 1..Len(ClassOf(x)) : ClassOf(x)[k] = t
       THEN y = [x EXCEPT !.Attr = OtherAttrs(x)]
       ELSE SameButClass(x, y, SelectSeq(ClassOf(x), LAMBDA f : f # t))

\* C16: addClass leaves a node that has the token unchanged and otherwise
\* appends the token behind the existing ones (creating the attribute when
\* there is none); removeClass leaves a node without the token unchanged
\* and otherwise removes it, keeping the other tokens in order (deleting
\* the attribute when no token is left); a second application of either
\* changes nothing.
C16_ClassListAlgebra ==
  (call # <<>> /\ call[1] \in {"addClass", "removeClass"} /\ ret # <<>>) =>
    /\ call[1] = "addClass" => AddClassAsClaimed(call[2], call[3], ret[1])
    /\ call[1] = "removeClass" => RemoveClassAsClaimed(call[2], call[3], ret[1])
    /\ Len(ret) = 2 => ret[2] = ret[1]

\* removeClass has been applied twice to a node that held the token twice
\* and another token between
C16_Witness ==
  /\ call # <<>> /\ call[1] = "removeClass" /\ Len(ret) = 2
  /\ call[3] = <<"a">>
  /\ ClassOf(call[2]) = <<<<"a">>, <<"b">>, <<"a">>>>
  /\ ClassOf(ret[2]) = <<<<"b">>>>

\* =========================================================================
\* C17
\* =========================================================================
InputLines == SelectSeq(VisitedSeq(nodes), isStylizedLine)
OutputLines == SelectSeq(VisitedSeq(Output), isStylizedLine)

RECURSIVE InnerText(_)
InnerTextNode(x) == IF x.Type = "text" THEN x.Data ELSE InnerText(x.Kids)
InnerText(xs) == IF xs = <<>> THEN <<>> ELSE InnerTextNode(xs[1]) \o InnerText(Tail(xs))

\* s neither begins nor ends with white space
NoOuterWhitespace(s) == s = <<>> \/ (~IsSpace(s[1]) /\ ~IsSpace(s[Len(s)]))

\* C18: in the returned output the inner text of every marker that is a
\* child of an element, a verse number or a chapter number, in prose or in
\* a poetic line, has no white space or non-breaking space at its ends.
C18_MarkerTextTrimmed ==
  Returned =>
    \A y \in Range(FlattenSeq(Output)) :
      \A k \in 1..Len(y.Kids) :
        IsMarkerOut(y.Kids[k]) => NoOuterWhitespace(InnerText(y.Kids[k].Kids))

\* =========================================================================
\* Expunge (cache_expunger)
\* =========================================================================
\* The table is kept as the number of rows per age of created_at, in days
\* before 'now'; rows of one age differ in their reference only.  The
\* statements of one call see the same 'now'.

\* "-28 days"
MaxAgeDays == 28

\* count > 500
MaxEntries == 500

\* the ages of the enumerated rows, and how many rows an age may have
Ages == {1, 2, MaxAgeDays, MaxAgeDays + 1, MaxAgeDays + 2}

RowCounts == {0, 1, 2, MaxEntries - 1, MaxEntries, MaxEntries + 1}

Tables == [Ages -> RowCounts]

NoRows == [a \in Ages |-> 0]

RECURSIVE TotalOver(_, _)
TotalOver(t, as) ==
  IF as = {} THEN 0
  ELSE TotalOver(t, as \ {CHOOSE a \in as : TRUE}) + t[CHOOSE a \in as : TRUE]

\* SELECT COUNT(*) FROM esv_cache
Total(t) == TotalOver(t, Ages)

\* created_at < datetime('now', '-28 days'), a lenient variant first
IsExpired_OneDayLate(age) == age > MaxAgeDays + 1

IsExpired(age) == age > MaxAgeDays

\* DELETE FROM esv_cache WHERE created_at < datetime('now', '-28 days')
TimePurged(t) == [a \in Ages |-> IF IsExpired(a) THEN 0 ELSE t[a]]

Min(x, y) == IF x <= y THEN x ELSE y

\* the age the subquery of the count-based purge reads first; a variant
\* with ORDER BY created_at DESC first
FirstInOrder_Desc(as) == CHOOSE a \in as : \A b \in as : b >= a

FirstInOrder(as) == CHOOSE a \in as : \A b \in as : b <= a

\* the rows SELECT reference ... ORDER BY created_at ASC LIMIT limit yields,
\* taken from the ages as
RECURSIVE OldestRows(_, _, _)
TakenAt(t, as, limit, a) ==
  [OldestRows(t, as \ {a}, limit - Min(t[a], limit)) EXCEPT ![a] = Min(t[a], limit)]
OldestRows(t, as, limit) ==
  IF as = {} \/ limit = 0 THEN NoRows ELSE TakenAt(t, as, limit, FirstInOrder(as))

\* DELETE FROM esv_cache WHERE reference IN (...)
Without(t, rows) == [a \in Ages |-> t[a] - rows[a]]

CountPurged(t, limit) == Without(t, OldestRows(t, Ages, limit))

InitExpunge ==
  /\ PassageIdle
  /\ call = <<>>
  /\ ret = <<>>
  /\ esv_cache \in Tables
  /\ before = esv_cache
  /\ removed = NoRows
  /\ count = 0
  /\ epc = "start"

\* part_003 line 39
TimePurge ==
  /\ epc = "start"
  /\ esv_cache' = TimePurged(esv_cache)
  /\ epc' = "counting"
  /\ UNCHANGED <<passageVars, unitVars, count, before, removed>>

\* part_003 lines 45-46
CountRows ==
  /\ epc = "counting"
  /\ count' = Total(esv_cache)
  /\ epc' = "counted"
  /\ UNCHANGED <<passageVars, unitVars, esv_cache, before, removed>>

\* part_003 lines 51-69
CountPurge ==
  /\ epc = "counted" /\ count > MaxEntries
  /\ removed' = OldestRows(esv_cache, Ages, count - MaxEntries)
  /\ esv_cache' = CountPurged(esv_cache, count - MaxEntries)
  /\ epc' = "nil"
  /\ UNCHANGED <<passageVars, unitVars, count, before>>

\* part_003 lines 51 and 71
ReturnNil ==
  /\ epc = "counted" /\ count <= MaxEntries
  /\ epc' = "nil"
  /\ UNCHANGED <<passageVars, unitVars, esv_cache, count, before, removed>>

\* part_003 lines 40-42, 47-49, 65-67: the statement failed and changed
\* nothing
ReturnErr ==
  /\ epc \in {"start", "counting"} \/ (epc = "counted" /\ count > MaxEntries)
  /\ epc' = "err"
  /\ UNCHANGED <<passageVars, unitVars, esv_cache, count, before, removed>>

NextExpunge == TimePurge \/ CountRows \/ CountPurge \/ ReturnNil \/ ReturnErr

SpecExpunge == InitExpunge /\ [][NextExpunge]_vars

\* -------------------------------------------------------------------------
\* C19
\* -------------------------------------------------------------------------
ReturnedNil == epc = "nil"

\* no row removed for the count limit is newer than a row that remains
RemovedAreOldest ==
  \A a \in Ages : \A b \in Ages :
    (removed[a] > 0 /\ esv_cache[b] > 0) => a >= b

\* C19: after Expunge returns without error the esv_cache table holds at
\* most 500 entries, and the entries removed for the count limit are the
\* oldest by created_at: no removed entry is newer than any entry that
\* remains.
C19_AtMostMaxEntriesOldestFirst ==
  ReturnedNil => (Total(esv_cache) <= MaxEntries /\ RemovedAreOldest)

\* C19 witness: Expunge returned nil after the count-based purge removed
\* rows of two ages, one of them only in part, and left the table full.
C19_Witness ==
  /\ ReturnedNil
  /\ count > MaxEntries
  /\ Total(esv_cache) = MaxEntries
  /\ \E a \in Ages : removed[a] > 0 /\ esv_cache[a] > 0
  /\ \E a \in Ages : removed[a] > 0 /\ esv_cache[a] = 0

\* -------------------------------------------------------------------------
\* C20
\* -------------------------------------------------------------------------
\* C20: after Expunge returns without error no esv_cache entry created more
\* than 28 days ago remains, and an entry newer than 28 days is preserved
\* whenever the table holds at most 500 entries after the time-based purge.
C20_ExpiredGoneYoungKept ==
  ReturnedNil =>
    /\ \A a \in Ages : a > MaxAgeDays => esv_cache[a] = 0
    /\ count <= MaxEntries =>
         \A a \in Ages : a < MaxAgeDays => esv_cache[a] = before[a]

\* C20 witness: Expunge returned nil on a table that held rows of every
\* age, the time-based purge having left at most 500 rows.
C20_Witness ==
  /\ ReturnedNil
  /\ count <= MaxEntries
  /\ \A a \in Ages : before[a] > 0
  /\ \E a \in Ages : a < MaxAgeDays /\ esv_cache[a] > 1

\* =========================================================================
\* C21
\* =========================================================================
\* an open wrapper with children, so that closing it appends it
WrapperToAppend == currentWrapper # <<>> /\ currentWrapper[1].Kids # <<>>

\* the step on a block-level child appends the open wrapper as it is
BlockCloseUntrimmed ==
  (StepBlock /\ WrapperToAppend) =>
     /\ Len(newChildren') > Len(newChildren)
     /\ newChildren'[Len(newChildren) + 1] = currentWrapper[1]

\* the end of the children of a node that is not block-level appends the
\* open wrapper as it is
InlineEndUntrimmed ==
  (ExitNode /\ WrapperToAppend /\ ~isBlock(n[1])) =>
     /\ n'[1].Kids # <<>>
     /\ LastKid(n'[1]) = Child(currentWrapper[1])

\* C21: a wrapper closed because a block-level child is met is appended
\* without trailing trim, and so is a wrapper still open at the end of the
\* children of an enclosing node that is not block-level; the trailing trim
\* is for a verse boundary and for the end of a block-level node.
C21_TrimOnlyAtVerseOrBlockEnd ==
  [][BlockCloseUntrimmed /\ InlineEndUntrimmed]_vars

\* =========================================================================
\* C22
\* =========================================================================
\* what the recursion into the child at hand returns as active reference
ReturnedByChild == ProcessNode(Cleaned(children[i]), activeVerseRef).ref

\* C22: the reference the recursion into an element child returns, be the
\* child a block, a poetic line or another inline element, is the active
\* reference behind that child: it is applied to the following siblings and
\* returned to the caller.
C22_ChildReferenceCarriedOn ==
  [][(StepBlock \/ StepLine \/ StepInline) => activeVerseRef' = ReturnedByChild]_vars

\* =========================================================================
\* C23
\* =========================================================================
\* C23: no verse wrapper is appended while it has no children: every
\* wrapper span of the returned output has at least one child, a wrapper
\* that the trailing trim leaves empty being dropped.
C23_NoEmptyWrapper ==
  Returned => \A x \in Range(FlattenSeq(Output)) : IsWrapper(x) => x.Kids # <<>>

\* =========================================================================
\* C24
\* =========================================================================
IsLineGroupSection(x) ==
  x.Type = "element" /\ x.Tag = "section" /\ hasClass(x, "line-group")

\* a block, paragraph, span, poetic line or verse wrapper other than a
\* line-group section
IsPlainContainer(x) ==
  x.Type = "element" /\ (isBlock(x) \/ x.Tag = "span") /\ ~IsLineGroupSection(x)

\* C24: in the returned output a text node of white space only, or without
\* characters, is a direct child of a line-group section: none is a child
\* of a block, paragraph, span, poetic line or verse wrapper.
C24_WhitespaceOnlyInSections ==
  Returned =>
    \A y \in Range(ProcessedSeq(Output)) :
      IsPlainContainer(y) => \A k \in 1..Len(y.Kids) : ~IsWhitespaceText(y.Kids[k])

\* =========================================================================
\* C25
\* =========================================================================
\* the children of the top-level node at hand as the folding receives them
SourceKids ==
  EarlyTrim(cleanupAttributes(nodes[idx]), ExtractChildren(nodes[idx]))

BeginsUpTo(K, k) == Cardinality({j \in 1..k : isBeginLineGroup(K[j])})

\* the nearest marker before position k is a begin-line-group span
InOpenGroup(K, k) ==
  \E j \in 1..(k - 1) :
    /\ isBeginLineGroup(K[j])
    /\ \A q \in (j + 1)..(k - 1) : ~isBeginLineGroup(K[q]) /\ ~isEndLineGroup(K[q])

\* where the claim puts the k-th child: a begin marker becomes the section
\* of its number, another child goes to the section of the nearest begin
\* marker before it, or to the node's own list (section 0)
PlaceOf(K, k) ==
  IF isBeginLineGroup(K[k])
  THEN [kind |-> "section", sec |-> BeginsUpTo(K, k), node |-> <<>>]
  ELSE [kind |-> "child",
        sec |-> IF InOpenGroup(K, k) THEN BeginsUpTo(K, k) ELSE 0,
        node |-> <<K[k]>>]

RECURSIVE ClaimedPlaces(_, _)
ClaimedPlaces(K, k) ==
  IF k > Len(K) THEN <<>>
  ELSE IF isEndLineGroup(K[k]) /\ ~isBeginLineGroup(K[k]) THEN ClaimedPlaces(K, k + 1)
  ELSE <<PlaceOf(K, k)>> \o ClaimedPlaces(K, k + 1)

\* where the folded list has them: the sections are numbered as they come
SectionsUpTo(g, j) == Cardinality({q \in 1..j : IsSyntheticSection(g[q])})

PlacesAt(g, j) ==
  IF IsSyntheticSection(g[j])
  THEN <<[kind |-> "section", sec |-> SectionsUpTo(g, j), node |-> <<>>]>>
         \o [q \in 1..Len(g[j].Kids) |->
               [kind |-> "child", sec |-> SectionsUpTo(g, j), node |-> <<Detach(g[j].Kids[q])>>]]
  ELSE <<[kind |-> "child", sec |-> 0, node |-> <<g[j]>>]>>

RECURSIVE FoldedPlaces(_, _)
FoldedPlaces(g, j) ==
  IF j > Len(g) THEN <<>> ELSE PlacesAt(g, j) \o FoldedPlaces(g, j + 1)

IsLineGroupMarker(c) == isBeginLineGroup(c) \/ isEndLineGroup(c)

\* C25: line-group folding over the children of a node is an
\* order-preserving partition: the begin and end markers are gone, every
\* other child is placed once, in the section of the nearest begin marker
\* before it when no end marker lies between and in the node's own list
\* otherwise, in the order of the input; an end without a begin is dropped, a
\* begin without an end collects the rest, a begin inside an open group
\* starts a new sibling section.
C25_FoldingIsOrderedPartition ==
  pc = "loop" =>
    /\ FoldedPlaces(children, 1) = ClaimedPlaces(SourceKids, 1)
    /\ \A j \in 1..Len(children) :
         /\ ~IsLineGroupMarker(children[j])
         /\ IsSyntheticSection(children[j]) =>
              /\ children[j].Tag = "section"
              /\ children[j].Attr = <<[Key |-> "class", Val |-> <<"line-group">>]>>
              /\ \A q \in 1..Len(children[j].Kids) :
                   ~IsLineGroupMarker(children[j].Kids[q])
                     /\ ~IsSyntheticSection(children[j].Kids[q])

\* C25 witness: inside the loop over the folded children of a node whose
\* children were a begin marker, a second begin marker and a child behind
\* it, or an end marker first and a child behind it
C25_Witness ==
  /\ pc = "loop"
  /\ Len(SourceKids) = 3
  /\ \/ /\ isBeginLineGroup(SourceKids[1]) /\ isBeginLineGroup(SourceKids[2])
        /\ Len(children) = 2 /\ Len(children[2].Kids) = 1
     \/ /\ isBeginLineGroup(SourceKids[1]) /\ isEndLineGroup(SourceKids[2])
        /\ Len(children) = 2 /\ ~IsSyntheticSection(children[2])

\* =========================================================================
\* C26
\* =========================================================================
\* what is about to be attached has no parent
PendingDetached ==
  /\ \A k \in 1..Len(newChildren) : ~AppendPanics(newChildren[k])
  /\ currentWrapper # <<>> => ~AppendPanics(currentWrapper[1])

\* below a node that processNode has returned every node is in the child
\* list of its parent
AllAttachedBelow(x) ==
  \A k \in 1..Len(FlattenSeq(x.Kids)) : FlattenSeq(x.Kids)[k].Parent

\* C26: the tree stays a tree: a node that processNode attaches to a
\* wrapper, to a section or to the node being rebuilt has no parent at that
\* moment, the children promoted out of an unwrapped paragraph included,
\* and behind processNode every node of the subtree is in one child list.
C26_TreeStaysTree ==
  /\ pc # "panic"
  /\ PendingDetached
  /\ pc = "post" => AllAttachedBelow(n[1])

\* =========================================================================
\* C27
\* =========================================================================
\* a paragraph that holds a line-group section once its children are folded
IsUnwrapped(x) == hasSection(Grouped(x))

\* The content of a forest as the claim reads it: the characters that are
\* not white space and the original elements, in document order.  Wrappers
\* and sections made by the transformer are transparent, line-group marker
\* spans are left out, and an emptied paragraph contributes nothing; with
\* unwrapping set a paragraph that is unwrapped contributes its children
\* only.
RECURSIVE Content(_, _)
ContentNode(x, unwrapping) ==
  IF x.Type = "text" THEN SelectSeq(x.Data, LAMBDA ch : ~IsSpace(ch))
  ELSE IF x.Type # "element" THEN <<>>
  ELSE IF x.Origin \in {"wrapper", "section"} THEN Content(x.Kids, unwrapping)
  ELSE IF IsLineGroupMarker(x) THEN <<>>
  ELSE IF x.Tag = "p" /\ (Content(x.Kids, unwrapping) = <<>> \/ (unwrapping /\ IsUnwrapped(x)))
       THEN Content(x.Kids, unwrapping)
  ELSE <<"<", x.Tag>> \o Content(x.Kids, unwrapping) \o <<">">>
Content(xs, unwrapping) ==
  IF xs = <<>> THEN <<>>
  ELSE ContentNode(xs[1], unwrapping) \o Content(Tail(xs), unwrapping)

\* C27 as stated: the non-white-space text and the original elements other
\* than line-group marker spans and emptied paragraphs are the same, in the
\* same order, in the returned output as in the input.
C27_ContentPreserved ==
  Returned => Content(Output, FALSE) = Content(nodes, FALSE)

\* C27 (amended): the same, the paragraphs that are unwrapped around a
\* line-group section being left out as well: such a paragraph is not in
\* the output, its children are.
C27_ContentPreservedButUnwrapped ==
  Returned => Content(Output, TRUE) = Content(nodes, TRUE)

\* C27 witness: a returned run on a fragment with a marker, a paragraph
\* with content that is unwrapped and a paragraph that shows nothing
C27_Witness ==
  /\ Returned
  /\ InputMarkerCount > 0
  /\ \E k \in 1..Len(nodes) :
       nodes[k].Type = "element" /\ nodes[k].Tag = "p" /\ hasSection(Grouped(nodes[k]))
         /\ Content(<<nodes[k]>>, TRUE) # <<>>
  /\ \E k \in 1..Len(nodes) :
       nodes[k].Type = "element" /\ nodes[k].Tag = "p"
         /\ Content(<<nodes[k]>>, TRUE) = <<>>

\* =========================================================================
\* C28
\* =========================================================================
\* the top-level element at hand has a copyright link among its children
LinkAmongChildren ==
  nodes[idx].Type = "element" /\ HasCopyrightLink(nodes[idx])

\* no marker at or below the children visited so far
NoMarkerSoFar ==
  \A k \in 1..Len(FlattenSeq(SubSeqOrEmpty(children, 1, i - 1))) :
    getVerseRef(FlattenSeq(SubSeqOrEmpty(children, 1, i - 1))[k]) = <<>>

\* nothing placed so far is wrapped or tagged
NothingWrappedSoFar ==
  /\ currentWrapper = <<>>
  /\ \A k \in 1..Len(FlattenSeq(newChildren)) :
       ~IsWrappedOrTagged(FlattenSeq(newChildren)[k])

\* C28: when a direct child of an element is a copyright link the active
\* reference is cleared before the children of that element are processed:
\* as long as no marker has come, what precedes the link inside the element
\* is left unwrapped and untagged, whatever reference was active on entry.
C28_CopyrightChildClearsOnEntry ==
  (pc = "loop" /\ LinkAmongChildren /\ NoMarkerSoFar) =>
     (activeVerseRef = <<>> /\ NothingWrappedSoFar)

\* C28 witness: the first paragraph of the fragment opened verse 01001001,
\* and in the next paragraph the text before the copyright link has been
\* placed unwrapped
C28_Witness ==
  /\ pc = "loop" /\ idx = 2 /\ i = 2
  /\ nodes[1] = PlainP(<<VerseNum(Ref1), TSpaced>>)
  /\ nodes[2] = PlainP(<<TA, Copyright>>)
  /\ newChildren = <<Detach(TA)>>
  /\ activeVerseRef = <<>>

\* =========================================================================
\* C29
\* =========================================================================
RECURSIVE VisitedBelowTop(_)
\* the visited nodes that are not top-level nodes, in document order
VisitedBelowTop(xs) ==
  IF xs = <<>> THEN <<>> ELSE VisitedKids(xs[1].Kids) \o VisitedBelowTop(Tail(xs))

\* the markers that are children of an element
ChildMarkers(xs) == SelectSeq(VisitedBelowTop(xs), IsMarker)

\* the children of a marker with the white space cut from the front of a
\* first text child and from the end of a last text child
TrimFirst(kids) ==
  IF kids # <<>> /\ kids[1].Type = "text"
  THEN [kids EXCEPT ![1].Data = TrimLeft(@)] ELSE kids

TrimLast(kids) ==
  IF kids # <<>> /\ kids[Len(kids)].Type = "text"
  THEN [kids EXCEPT ![Len(kids)].Data = TrimRight(@)] ELSE kids

\* what the claim leaves of the descendants of marker m
LeftAsParsed(m) ==
  IF m.Tag = "b" /\ hasClass(m, "verse-num")
  THEN RenderAll(TrimLast(TrimFirst(m.Kids)))
  ELSE RenderAll(m.Kids)

TopTextUntouched ==
  ProcessNonElement => (n' = <<nodes[idx]>> /\ activeVerseRef' = activeVerseRef)

\* entering a top-level element sets no reference, whatever its id: the
\* reference is the one carried in, or none when the element has a
\* copyright-link child
TopElementSetsNoReference ==
  EnterNode => activeVerseRef' = IF HasCopyrightLink(nodes[idx]) THEN <<>> ELSE activeVerseRef

\* what the driver renders for a top-level node is that node, not a wrapper
\* around it
TopNodeRenderedUnwrapped ==
  RenderNode =>
     /\ buf' = Append(buf, n[1])
     /\ ~IsWrapper(n[1])
     /\ n[1].Type = nodes[idx].Type /\ n[1].Tag = nodes[idx].Tag
     /\ nodes[idx].Type = "text" => n[1] = nodes[idx]

\* C30: the top-level driver detects no marker and wraps nothing itself: a
\* top-level element whose own id matches the verse pattern sets no active
\* reference and gets no wrapper, a top-level text node is serialized
\* unwrapped even while a verse is active, and wrappers are created only as
\* children of an element being processed.
C30_DriverWrapsNothing ==
  [][TopTextUntouched /\ TopElementSetsNoReference /\ TopNodeRenderedUnwrapped]_vars

\* C30 witness: a returned run on a fragment that opens with a marker at
\* the top level, whose text is not wrapped, and ends with a text node at
\* the top level behind a paragraph that opened verse 01001001
C30_Witness ==
  /\ Returned
  /\ nodes = <<VerseNum(Ref1), PlainP(<<VerseNum(Ref1), TSpaced>>), TBlank>>
  /\ activeVerseRef = Ref1
  /\ Len(buf) = 3
  /\ buf[1].Tag = "b" /\ Len(buf[1].Kids) = 1 /\ buf[1].Kids[1].Type = "text"
  /\ buf[3] = TBlank
====
